---- MODULE Spec2Model ----
(***************************************************************************)
(* dancehall-bot: the schema lifecycle of the catalog store (storage.py),  *)
(* the access-window store with its role resolver and administrative flows *)
(* (storage_users.py, user_guards.py, admin_handlers.py), the catalog      *)
(* operations of Storage, the add-video and edit flows of bot.py and the   *)
(* records and listings of UsersStorage.                                   *)
(*                                                                         *)
(* SpecSchema   : startups of Storage.__init__ / _init_db on a database    *)
(* SpecUsers    : the admin FSM handlers over the users table              *)
(* SpecUrl      : normalize_url on bounded input strings                   *)
(* SpecCatalog  : the operations of Storage on the catalog tables          *)
(* SpecFavorites: toggle_favorite while items come and go                  *)
(* SpecToggle   : toggle_favorite issued through two Storage handles       *)
(* SpecBot      : the add-video flow of bot.py run by two users            *)
(* SpecEdit     : the add-video and edit flows of bot.py run by one user   *)
(* SpecItems    : create, replace, rename, delete and favorite of items    *)
(* SpecVault    : the vault and storage message operations of Storage      *)
(* SpecTaxonomy : ensure_taxonomy while items come and go                  *)
(* SpecPages    : the paginated listings of Storage                        *)
(* SpecRecords  : the writes of UsersStorage on full records               *)
(* SpecLists    : list_active, list_expiring and render_list               *)
(* SpecGuards   : require_admin and require_member in front of a handler   *)
(* SpecBans     : the ban and delete flows of the admin handlers           *)
(* SpecStale    : the add-video flow with buttons of earlier messages      *)
(***************************************************************************)
EXTENDS Integers, Sequences, FiniteSets, TLC

VARIABLES
    disk,           \* the database file: what has been committed
    db,             \* the connection's view: disk plus the open transaction
    inTx,           \* the connection has an open transaction
    pc,             \* position of the running startup
    path,           \* branch ensure_videos_schema took in this startup
    rows_before,    \* locals of _rebuild_videos_table
    inserted_rows,
    skipped_rows,
    exc,            \* how the startup ended: none / error / killed / postcheck
    startups,       \* number of startups so far
    faults,         \* number of injected faults so far
    pre,            \* history: the database file as this startup found it
    prev,           \* history: how the previous startup went
    users,          \* the users table
    now,            \* the clock read by now_ts()
    fsm,            \* aiogram FSM context per sender: state and data["target"]
    reply,          \* the last answer a handler sent: ok / retry / refused / denied
    last,           \* history: the last write a handler made to the users table
    catalog,        \* the catalog as the bot's connection sees it
    saved,          \* the catalog as committed to the database file
    flow,           \* aiogram FSM context of bot.py per user: state and data
    posts,          \* number of messages in the vault channel
    calls,          \* toggle_favorite calls in progress, per Storage handle
    shown,          \* the inline buttons the bot has sent, per user's chat
    out             \* history: the last operation, its inputs and its result

schemaVars == <<disk, db, inTx, pc, path, rows_before, inserted_rows, skipped_rows,
                exc, startups, faults, pre, prev>>
userVars == <<users, now, fsm, reply, last>>
catVars == <<catalog, saved, flow, posts, calls, shown, out>>
vars == <<disk, db, inTx, pc, path, rows_before, inserted_rows, skipped_rows,
          exc, startups, faults, pre, prev, users, now, fsm, reply, last,
          catalog, saved, flow, posts, calls, shown, out>>

\* SQL NULL; a present value v is {v}
NULL == {}
Some(v) == {v}
Val(x) == CHOOSE v \in x : TRUE

COALESCE(a, b) == IF a # NULL THEN a ELSE b

-----------------------------------------------------------------------------
(* Bounds of the schema model *)
MaxRows == 2
MaxStartups == 2
MaxFaults == 1

-----------------------------------------------------------------------------
(* The catalog database *)

NoTable ==
    [exists |-> FALSE, vault_cols |-> FALSE, uq_file_unique_id |-> FALSE,
     uq_url |-> FALSE, ux_videos_vault_pair |-> FALSE, rows |-> {}]

NoChild == [exists |-> FALSE, parent |-> "videos", rows |-> {}]

NoDatabase ==
    [videos |-> NoTable, videos_old |-> NoTable,
     video_categories |-> NoChild, favorites |-> NoChild, categories |-> {}]

\* CREATE TABLE videos (...) of _create_videos_table, before its indexes
TargetTable ==
    [exists |-> TRUE, vault_cols |-> TRUE, uq_file_unique_id |-> FALSE,
     uq_url |-> TRUE, ux_videos_vault_pair |-> FALSE, rows |-> {}]

Ids(t) == {r.id : r \in t.rows}

videos_table_exists(d) == d.videos.exists

has_vault_cols(d) == d.videos.vault_cols

has_unique_file_unique_id(d) == d.videos.uq_file_unique_id

has_unique_vault_pair(d) == d.videos.ux_videos_vault_pair

\* mutant: the forbidden legacy index is required instead of rejected
needs_migration_requires_legacy_index(d) ==
    ~(has_unique_vault_pair(d) /\ has_unique_file_unique_id(d) /\ has_vault_cols(d))

needs_migration(d) ==
    ~(has_unique_vault_pair(d) /\ ~has_unique_file_unique_id(d) /\ has_vault_cols(d))

\* index names are global to the database: a table renamed aside keeps its indexes
IndexNameTaken(d) ==
    d.videos.ux_videos_vault_pair \/ d.videos_old.ux_videos_vault_pair

\* CREATE TABLE IF NOT EXISTS videos
CreateTableStmt(d) ==
    IF d.videos.exists THEN d ELSE [d EXCEPT !.videos = TargetTable]

\* CREATE UNIQUE INDEX IF NOT EXISTS ux_videos_vault_pair ON videos(...)
CreateIndexStmt(d) ==
    IF IndexNameTaken(d) THEN d ELSE [d EXCEPT !.videos.ux_videos_vault_pair = TRUE]

\* the statements of the script of _create_videos_table, each autocommitted
create_videos_table(d) == CreateIndexStmt(CreateTableStmt(d))

\* the SELECT list of the copy: a legacy row as the target layout holds it
MigratedRow(r) ==
    [id |-> r.id, url |-> r.url,
     storage_chat_id |-> r.storage_chat_id,
     storage_message_id |-> r.storage_message_id,
     vault_chat_id |-> COALESCE(r.vault_chat_id, r.storage_chat_id),
     vault_message_id |-> COALESCE(r.vault_message_id, r.storage_message_id)]

SamePair(a, b) ==
    /\ a.vault_chat_id # NULL /\ a.vault_message_id # NULL
    /\ a.vault_chat_id = b.vault_chat_id
    /\ a.vault_message_id = b.vault_message_id

SameUrl(a, b) == a.url # NULL /\ a.url = b.url

\* a row the constraints of table t reject against the rows already in it
Conflicts(n, rows, t) ==
    \E e \in rows :
        \/ e.id = n.id
        \/ t.uq_url /\ SameUrl(n, e)
        \/ t.ux_videos_vault_pair /\ SamePair(n, e)

\* INSERT OR IGNORE INTO videos ... SELECT ... FROM videos_old (rowid order)
RECURSIVE InsertOrIgnore(_, _, _)
InsertOrIgnore(src, acc, t) ==
    IF src = {} THEN acc
    ELSE LET r == CHOOSE x \in src : \A y \in src : x.id <= y.id
             n == MigratedRow(r)
         IN  InsertOrIgnore(src \ {r},
                            IF Conflicts(n, acc, t) THEN acc ELSE acc \cup {n}, t)

\* ALTER TABLE videos RENAME TO videos_old, with foreign_keys = ON: the
\* REFERENCES clauses of the child tables follow the renamed table
Renamed(c) == IF c.exists /\ c.parent = "videos" THEN [c EXCEPT !.parent = "videos_old"] ELSE c

RenameStmt(d) ==
    [d EXCEPT !.videos_old = d.videos, !.videos = NoTable,
              !.video_categories = Renamed(d.video_categories),
              !.favorites = Renamed(d.favorites)]

\* DROP TABLE videos_old, with foreign_keys = ON: the implicit DELETE of its
\* rows runs ON DELETE CASCADE in the child tables that reference it
Cascaded(c, gone) ==
    IF c.exists /\ c.parent = "videos_old"
    THEN [c EXCEPT !.rows = {r \in c.rows : r.video_id \notin gone}]
    ELSE c

DropOldStmt(d) ==
    [d EXCEPT !.videos_old = NoTable,
              !.video_categories = Cascaded(d.video_categories, Ids(d.videos_old)),
              !.favorites = Cascaded(d.favorites, Ids(d.videos_old))]

\* the script of _init_db: CREATE TABLE IF NOT EXISTS categories / video_categories / favorites
CreateChild(c) == IF c.exists THEN c ELSE [exists |-> TRUE, parent |-> "videos", rows |-> {}]

InitScript(d) ==
    [d EXCEPT !.video_categories = CreateChild(d.video_categories),
              !.favorites = CreateChild(d.favorites)]

needs_fix(c) == c.exists /\ c.parent = "videos_old"

\* video_categories_new: inner join with the new videos and with categories
RepairVideoCategories(d) ==
    IF needs_fix(d.video_categories)
    THEN [d EXCEPT !.video_categories =
            [exists |-> TRUE, parent |-> "videos",
             rows |-> {r \in d.video_categories.rows :
                          r.video_id \in Ids(d.videos) /\ r.category_id \in d.categories}]]
    ELSE d

\* favorites_new: inner join with the new videos
RepairFavorites(d) ==
    IF needs_fix(d.favorites)
    THEN [d EXCEPT !.favorites =
            [exists |-> TRUE, parent |-> "videos",
             rows |-> {r \in d.favorites.rows : r.video_id \in Ids(d.videos)}]]
    ELSE d

repair_relations_after_video_rebuild(d) == RepairFavorites(RepairVideoCategories(d))

-----------------------------------------------------------------------------
(* Database files a startup can find *)

MsgIds == {1, 2}

\* rows as save_storage_message / save_vault_message leave them: a pair is set
\* together, and the vault pair repeats the storage pair
RowShapes ==
    {[url |-> u, storage_chat_id |-> IF m = NULL THEN NULL ELSE Some("chat"),
      storage_message_id |-> m,
      vault_chat_id |-> IF v THEN (IF m = NULL THEN NULL ELSE Some("chat")) ELSE NULL,
      vault_message_id |-> IF v THEN m ELSE NULL] :
        u \in {NULL, Some("u1")}, m \in {NULL} \cup {Some(i) : i \in MsgIds},
        v \in BOOLEAN}

Layouts ==
    {l \in [vault_cols : BOOLEAN, uq_file_unique_id : BOOLEAN, uq_url : BOOLEAN,
            ux_videos_vault_pair : BOOLEAN] : l.ux_videos_vault_pair => l.vault_cols}

RowOf(i, sh) ==
    [id |-> i, url |-> sh.url,
     storage_chat_id |-> sh.storage_chat_id, storage_message_id |-> sh.storage_message_id,
     vault_chat_id |-> sh.vault_chat_id, vault_message_id |-> sh.vault_message_id]

\* the rows satisfy the constraints of the layout that holds them
ValidRows(rows, l) ==
    /\ \A r \in rows : ~l.vault_cols => (r.vault_chat_id = NULL /\ r.vault_message_id = NULL)
    /\ \A a, b \in rows : a # b =>
          /\ ~(l.uq_url /\ SameUrl(a, b))
          /\ ~(l.ux_videos_vault_pair /\ SamePair(a, b))

TableOf(l, rows) ==
    [exists |-> TRUE, vault_cols |-> l.vault_cols,
     uq_file_unique_id |-> l.uq_file_unique_id, uq_url |-> l.uq_url,
     ux_videos_vault_pair |-> l.ux_videos_vault_pair, rows |-> rows]

\* a database an earlier version of the bot has used; with dependents, every
\* item is one user's favorite and carries one category
UsedDatabase(l, rows, dependents) ==
    [videos |-> TableOf(l, rows), videos_old |-> NoTable,
     video_categories |->
        [exists |-> TRUE, parent |-> "videos",
         rows |-> IF dependents
                  THEN {[video_id |-> r.id, category_id |-> 1] : r \in rows} ELSE {}],
     favorites |->
        [exists |-> TRUE, parent |-> "videos",
         rows |-> IF dependents
                  THEN {[user_id |-> 1, video_id |-> r.id] : r \in rows} ELSE {}],
     categories |-> {1}]

Databases ==
    {NoDatabase} \cup
    {UsedDatabase(l, {RowOf(i, f[i]) : i \in 1..n}, dep) :
        <<l, n, f, dep>> \in
            {x \in Layouts \X (0..MaxRows) \X [1..MaxRows -> RowShapes] \X BOOLEAN :
                /\ \A i \in 1..MaxRows : i > x[2] => x[3][i] = x[3][1]
                /\ ValidRows({RowOf(i, x[3][i]) : i \in 1..x[2]}, x[1])
                /\ (x[4] => x[2] > 0)}}

NoPrev == [outcome |-> "none", path |-> "none", exc |-> "none", ids |-> {}, empty |-> FALSE]

UsersIdle ==
    /\ users = <<>> /\ now = 0 /\ fsm = <<>> /\ reply = "none" /\ last = <<>>

CatalogIdle ==
    /\ catalog = <<>> /\ saved = <<>> /\ flow = <<>> /\ posts = 0 /\ shown = {} /\ calls = <<>>
    /\ out = <<>>

SchemaIdle ==
    /\ disk = NoDatabase /\ db = NoDatabase /\ inTx = FALSE /\ pc = "down"
    /\ path = "none" /\ rows_before = 0 /\ inserted_rows = 0 /\ skipped_rows = 0
    /\ exc = "none" /\ startups = 0 /\ faults = 0 /\ pre = NoDatabase /\ prev = NoPrev

-----------------------------------------------------------------------------
(* Startup: Storage.__init__, _init_db, ensure_videos_schema, _rebuild_videos_table *)

TrySteps ==
    {"rb_begin", "rb_rename", "rb_script_commit", "rb_create_table", "rb_create_index",
     "rb_copy", "rb_count", "rb_drop", "rb_commit"}

\* sqlite3.connect on the file, PRAGMA foreign_keys = ON
StartProcess ==
    /\ pc \in {"down", "serving", "failed"}
    /\ startups < MaxStartups
    /\ startups' = startups + 1
    /\ prev' = [outcome |-> pc, path |-> path, exc |-> exc, ids |-> Ids(pre.videos),
                empty |-> (pre = NoDatabase)]
    /\ pre' = disk
    /\ db' = disk
    /\ inTx' = FALSE
    /\ pc' = "ensure"
    /\ path' = "none"
    /\ exc' = "none"
    /\ rows_before' = 0 /\ inserted_rows' = 0 /\ skipped_rows' = 0
    /\ UNCHANGED <<disk, faults>>
    /\ UNCHANGED <<userVars, catVars>>

\* no videos table: create the target layout, commit, return
EnsureFresh ==
    /\ pc = "ensure"
    /\ ~videos_table_exists(db)
    /\ db' = create_videos_table(db)
    /\ disk' = db'
    /\ path' = "fresh"
    /\ pc' = "scripts"
    /\ UNCHANGED <<inTx, rows_before, inserted_rows, skipped_rows, exc, startups, faults,
                   pre, prev>>
    /\ UNCHANGED <<userVars, catVars>>

\* the layout satisfies the target: return
EnsureUpToDate ==
    /\ pc = "ensure"
    /\ videos_table_exists(db)
    /\ ~needs_migration(db)
    /\ path' = "uptodate"
    /\ pc' = "scripts"
    /\ UNCHANGED <<disk, db, inTx, rows_before, inserted_rows, skipped_rows, exc, startups,
                   faults, pre, prev>>
    /\ UNCHANGED <<userVars, catVars>>

\* call _rebuild_videos_table; its first statement counts the rows
EnsureStale ==
    /\ pc = "ensure"
    /\ videos_table_exists(db)
    /\ needs_migration(db)
    /\ path' = "rebuild"
    /\ rows_before' = Cardinality(db.videos.rows)
    /\ pc' = "rb_begin"
    /\ UNCHANGED <<disk, db, inTx, inserted_rows, skipped_rows, exc, startups, faults,
                   pre, prev>>
    /\ UNCHANGED <<userVars, catVars>>

\* BEGIN IMMEDIATE
RbBegin ==
    /\ pc = "rb_begin"
    /\ inTx' = TRUE
    /\ pc' = "rb_rename"
    /\ UNCHANGED <<disk, db, path, rows_before, inserted_rows, skipped_rows, exc, startups,
                   faults, pre, prev>>
    /\ UNCHANGED <<userVars, catVars>>

\* ALTER TABLE videos RENAME TO videos_old; raises when videos_old exists
RbRename ==
    /\ pc = "rb_rename"
    /\ IF db.videos_old.exists
       THEN /\ pc' = "rb_except"
            /\ db' = db
       ELSE /\ pc' = "rb_script_commit"
            /\ db' = RenameStmt(db)
    /\ UNCHANGED <<disk, inTx, path, rows_before, inserted_rows, skipped_rows, exc, startups,
                   faults, pre, prev>>
    /\ UNCHANGED <<userVars, catVars>>

\* _create_videos_table -> executescript: a pending transaction is committed first
RbScriptCommit ==
    /\ pc = "rb_script_commit"
    /\ disk' = db
    /\ inTx' = FALSE
    /\ pc' = "rb_create_table"
    /\ UNCHANGED <<db, path, rows_before, inserted_rows, skipped_rows, exc, startups,
                   faults, pre, prev>>
    /\ UNCHANGED <<userVars, catVars>>

\* the script's CREATE TABLE IF NOT EXISTS videos, in autocommit
RbCreateTable ==
    /\ pc = "rb_create_table"
    /\ db' = CreateTableStmt(db)
    /\ disk' = db'
    /\ pc' = "rb_create_index"
    /\ UNCHANGED <<inTx, path, rows_before, inserted_rows, skipped_rows, exc, startups,
                   faults, pre, prev>>
    /\ UNCHANGED <<userVars, catVars>>

\* the script's CREATE [UNIQUE] INDEX IF NOT EXISTS statements, in autocommit
RbCreateIndex ==
    /\ pc = "rb_create_index"
    /\ db' = CreateIndexStmt(db)
    /\ disk' = db'
    /\ pc' = "rb_copy"
    /\ UNCHANGED <<inTx, path, rows_before, inserted_rows, skipped_rows, exc, startups,
                   faults, pre, prev>>
    /\ UNCHANGED <<userVars, catVars>>

\* INSERT OR IGNORE ... SELECT ..., vault_chat_id, vault_message_id FROM videos_old:
\* fails to prepare when videos_old has no such column; otherwise the sqlite3
\* module opens a transaction before the INSERT
RbCopy ==
    /\ pc = "rb_copy"
    /\ IF ~db.videos_old.vault_cols
       THEN /\ pc' = "rb_except"
            /\ UNCHANGED <<db, inTx>>
       ELSE /\ pc' = "rb_count"
            /\ inTx' = TRUE
            /\ db' = [db EXCEPT !.videos.rows =
                        InsertOrIgnore(db.videos_old.rows, db.videos.rows, db.videos)]
    /\ UNCHANGED <<disk, path, rows_before, inserted_rows, skipped_rows, exc, startups,
                   faults, pre, prev>>
    /\ UNCHANGED <<userVars, catVars>>

\* inserted_rows = SELECT COUNT(*) FROM videos; skipped_rows = rows_before - inserted_rows
RbCount ==
    /\ pc = "rb_count"
    /\ inserted_rows' = Cardinality(db.videos.rows)
    /\ skipped_rows' = rows_before - inserted_rows'
    /\ pc' = "rb_drop"
    /\ UNCHANGED <<disk, db, inTx, path, rows_before, exc, startups, faults, pre, prev>>
    /\ UNCHANGED <<userVars, catVars>>

\* DROP TABLE videos_old
RbDrop ==
    /\ pc = "rb_drop"
    /\ db' = DropOldStmt(db)
    /\ pc' = "rb_commit"
    /\ UNCHANGED <<disk, inTx, path, rows_before, inserted_rows, skipped_rows, exc, startups,
                   faults, pre, prev>>
    /\ UNCHANGED <<userVars, catVars>>

\* COMMIT
RbCommit ==
    /\ pc = "rb_commit"
    /\ disk' = db
    /\ inTx' = FALSE
    /\ pc' = "rb_postcheck"
    /\ UNCHANGED <<db, path, rows_before, inserted_rows, skipped_rows, exc, startups,
                   faults, pre, prev>>
    /\ UNCHANGED <<userVars, catVars>>

\* a statement of the try block raises (I/O error, locked file)
RbFault ==
    /\ pc \in TrySteps
    /\ faults < MaxFaults
    /\ faults' = faults + 1
    /\ pc' = "rb_except"
    /\ UNCHANGED <<disk, db, inTx, path, rows_before, inserted_rows, skipped_rows, exc,
                   startups, pre, prev>>
    /\ UNCHANGED <<userVars, catVars>>

\* except: ROLLBACK (itself raising when no transaction is open), then raise
RbExcept ==
    /\ pc = "rb_except"
    /\ db' = IF inTx THEN disk ELSE db
    /\ inTx' = FALSE
    /\ exc' = "error"
    /\ pc' = "failed"
    /\ UNCHANGED <<disk, path, rows_before, inserted_rows, skipped_rows, startups, faults,
                   pre, prev>>
    /\ UNCHANGED <<userVars, catVars>>

\* the process is killed during the rebuild: the open transaction is lost
Interrupt ==
    /\ pc \in TrySteps
    /\ faults < MaxFaults
    /\ faults' = faults + 1
    /\ db' = disk
    /\ inTx' = FALSE
    /\ exc' = "killed"
    /\ pc' = "failed"
    /\ UNCHANGED <<disk, path, rows_before, inserted_rows, skipped_rows, startups, pre, prev>>
    /\ UNCHANGED <<userVars, catVars>>

\* the post-check after the commit
RbPostCheck ==
    /\ pc = "rb_postcheck"
    /\ IF ~has_unique_vault_pair(db) \/ has_unique_file_unique_id(db)
       THEN /\ exc' = "postcheck"
            /\ pc' = "failed"
       ELSE /\ exc' = exc
            /\ pc' = "scripts"
    /\ UNCHANGED <<disk, db, inTx, path, rows_before, inserted_rows, skipped_rows, startups,
                   faults, pre, prev>>
    /\ UNCHANGED <<userVars, catVars>>

\* _init_db: the script creating categories, video_categories, favorites
InitScripts ==
    /\ pc = "scripts"
    /\ db' = InitScript(db)
    /\ disk' = db'
    /\ inTx' = FALSE
    /\ pc' = "repair"
    /\ UNCHANGED <<path, rows_before, inserted_rows, skipped_rows, exc, startups, faults,
                   pre, prev>>
    /\ UNCHANGED <<userVars, catVars>>

\* _init_db: _repair_relations_after_video_rebuild, commit
RepairRelations ==
    /\ pc = "repair"
    /\ db' = repair_relations_after_video_rebuild(db)
    /\ disk' = db'
    /\ pc' = "serving"
    /\ UNCHANGED <<inTx, path, rows_before, inserted_rows, skipped_rows, exc, startups,
                   faults, pre, prev>>
    /\ UNCHANGED <<userVars, catVars>>

InitSchema ==
    /\ disk \in Databases
    /\ db = disk
    /\ pre = disk
    /\ inTx = FALSE /\ pc = "down"
    /\ path = "none" /\ rows_before = 0 /\ inserted_rows = 0 /\ skipped_rows = 0
    /\ exc = "none" /\ startups = 0 /\ faults = 0 /\ prev = NoPrev
    /\ UsersIdle
    /\ CatalogIdle

NextSchema ==
    \/ StartProcess
    \/ EnsureFresh
    \/ EnsureUpToDate
    \/ EnsureStale
    \/ RbBegin
    \/ RbRename
    \/ RbScriptCommit
    \/ RbCreateTable
    \/ RbCreateIndex
    \/ RbCopy
    \/ RbCount
    \/ RbDrop
    \/ RbCommit
    \/ RbFault
    \/ RbExcept
    \/ Interrupt
    \/ RbPostCheck
    \/ InitScripts
    \/ RepairRelations

SpecSchema == InitSchema /\ [][NextSchema]_vars

-----------------------------------------------------------------------------
(* Claims about the schema lifecycle *)

\* positions after ensure_videos_schema has returned
Returned == {"scripts", "repair", "serving"}

\* the rows, once copied, satisfy the uniqueness constraints of the target layout
TargetUnique(rows) ==
    \A a, b \in rows : a # b =>
        /\ ~SameUrl(MigratedRow(a), MigratedRow(b))
        /\ ~SamePair(MigratedRow(a), MigratedRow(b))

\* C1: when a step of the rebuild sequence raises, the whole sequence is rolled
\* back: the file holds the original videos table with its rows and no
\* videos_old table the startup did not find
C1_FailedRebuildRollsBack ==
    (pc = "failed" /\ path = "rebuild" /\ exc = "error")
        => (disk.videos = pre.videos /\ disk.videos_old = pre.videos_old)

\* C2: after a rebuild attempt that failed or was interrupted, the next startup
\* does not classify the store as fresh-install or up-to-date while rows of the
\* original videos table are missing from videos
C2_PartialStoreNeverServed ==
    (prev.outcome = "failed" /\ prev.path = "rebuild" /\ path \in {"fresh", "uptodate"})
        => prev.ids \subseteq Ids(db.videos)

\* C3: a startup that migrated keeps every favorites and video_categories row
\* whose item was carried over into the new videos table
C3_DependentRowsPreserved ==
    (pc = "serving" /\ path = "rebuild")
        => /\ \A r \in pre.favorites.rows :
                r.video_id \in Ids(db.videos) => r \in db.favorites.rows
           /\ \A r \in pre.video_categories.rows :
                r.video_id \in Ids(db.videos) => r \in db.video_categories.rows

\* C4: migrating a stale store whose rows satisfy the target uniqueness
\* constraints succeeds and loses no row: same ids, same count, none skipped
C4_MigrationLosesNoRow ==
    (path = "rebuild" /\ faults = 0 /\ pre.videos.rows # {} /\ TargetUnique(pre.videos.rows))
        => /\ pc \notin {"rb_except", "failed"}
           /\ pc \in Returned =>
                /\ Ids(db.videos) = Ids(pre.videos)
                /\ Cardinality(db.videos.rows) = Cardinality(pre.videos.rows)
                /\ skipped_rows = 0

\* the legacy rows that share the target key of row r
PairGroup(rows, r) == {x \in rows : SamePair(MigratedRow(r), MigratedRow(x))}
UrlGroup(rows, r) == {x \in rows : SameUrl(MigratedRow(r), MigratedRow(x))}

\* C5: a migration whose legacy rows collide on a target unique key does not
\* abort; one row per colliding key is carried over, the others are dropped, and
\* inserted_rows + skipped_rows = rows_before with skipped_rows the dropped rows
C5_CollidingRowsSkipped ==
    (path = "rebuild" /\ faults = 0 /\ ~TargetUnique(pre.videos.rows))
        => /\ pc \notin {"rb_except", "failed"}
           /\ pc \in Returned =>
                /\ inserted_rows + skipped_rows = rows_before
                /\ skipped_rows = Cardinality(Ids(pre.videos) \ Ids(db.videos))
                /\ skipped_rows > 0
                /\ \A r \in pre.videos.rows :
                     /\ Cardinality(PairGroup(pre.videos.rows, r)) > 1 =>
                          Cardinality(Ids(db.videos) \cap
                                      {x.id : x \in PairGroup(pre.videos.rows, r)}) = 1
                     /\ Cardinality(UrlGroup(pre.videos.rows, r)) > 1 =>
                          Cardinality(Ids(db.videos) \cap
                                      {x.id : x \in UrlGroup(pre.videos.rows, r)}) = 1

\* C6: on a store whose layout is up to date ensure_videos_schema runs no
\* migration and writes nothing, and the store a fresh install or a successful
\* migration leaves is such a store
C6_UpToDateIsNoOp ==
    /\ (path = "uptodate" /\ pc = "scripts") => (db = pre /\ disk = pre /\ ~inTx)
    /\ (path = "uptodate" /\ pc \in Returned) =>
            (db.videos = pre.videos /\ disk.videos = pre.videos)
    /\ (prev.outcome = "serving" /\ (prev.path = "rebuild" \/ prev.empty) /\ path # "none")
            => path = "uptodate"

C6_Witness ==
    /\ prev.outcome = "serving" /\ prev.path = "rebuild"
    /\ path = "uptodate" /\ pc = "scripts"
    /\ Cardinality(db.videos.rows) = MaxRows

UpToDateLayout(t) ==
    t.exists /\ t.vault_cols /\ t.ux_videos_vault_pair /\ ~t.uq_file_unique_id

\* C7: ensure_videos_schema takes one of three paths: no videos table - create
\* the target layout, no migration; up-to-date layout - change nothing;
\* otherwise rebuild, ending with the target layout or with an error raised
C7_ThreePaths ==
    path # "none" =>
        /\ path = "fresh" <=> ~pre.videos.exists
        /\ path = "uptodate" <=> UpToDateLayout(pre.videos)
        /\ path = "rebuild" <=> (pre.videos.exists /\ ~UpToDateLayout(pre.videos))
        /\ (path = "fresh" /\ pc \in Returned) =>
                (UpToDateLayout(db.videos) /\ db.videos.rows = {} /\ rows_before = 0)
        /\ (path = "uptodate" /\ pc = "scripts") => db = pre
        /\ (path = "rebuild" /\ pc \in Returned) => UpToDateLayout(db.videos)
        /\ (path = "rebuild" /\ pc = "failed") => exc # "none"

-----------------------------------------------------------------------------
(* The users table, the role resolver and the admin flows *)

SECONDS_IN_DAY == 86400

\* bounds of the users model
TickDays == 3
MaxNowDays == 3
MaxExpiryDays == 17

Principals == {1, 2}
admin_ids == {1}
Senders == {1, 2}

\* the durations duration_kb and the extend keyboard offer (7, 30, 90, 365), and
\* the day counts typed by hand
ButtonDays == {7}
ManualDays == {0, 10}

NoUser == [exists |-> FALSE, expires_at |-> NULL, is_banned |-> 0]

NoUsers == [p \in Principals |-> NoUser]

NoFsm == [state |-> "none", target |-> NULL]

NoWrite == [op |-> "none", target |-> 0, days |-> 0, at |-> 0, old |-> NoUser]

get_user(u, t) == u[t]

\* INSERT ... ON CONFLICT(telegram_id) DO UPDATE SET expires_at, is_banned = excluded.*
upsert_user(u, t, exp, banned) ==
    [u EXCEPT ![t] = [exists |-> TRUE, expires_at |-> exp, is_banned |-> banned]]

\* UPDATE users SET expires_at = ? WHERE telegram_id = ?
update_expiration(u, t, exp) ==
    IF u[t].exists THEN [u EXCEPT ![t].expires_at = exp] ELSE u

\* UPDATE users SET is_banned = ? WHERE telegram_id = ?
set_ban(u, t, banned) ==
    IF u[t].exists THEN [u EXCEPT ![t].is_banned = IF banned THEN 1 ELSE 0] ELSE u

\* DELETE FROM users WHERE telegram_id = ?
delete_user_row(u, t) == [u EXCEPT ![t] = NoUser]

\* mutant: the record is looked up before the admin set
resolve_role_record_first(user_id, u, t) ==
    IF user_id = NULL THEN "unknown"
    ELSE IF u[Val(user_id)].exists /\ u[Val(user_id)].is_banned = 1 THEN "banned"
    ELSE IF u[Val(user_id)].exists /\ u[Val(user_id)].expires_at # NULL
            /\ Val(u[Val(user_id)].expires_at) <= t THEN "expired"
    ELSE IF Val(user_id) \in admin_ids THEN "admin"
    ELSE IF ~u[Val(user_id)].exists THEN "unknown"
    ELSE "member"

\* resolve_role(user_id, admin_ids, users_storage) at clock value t; user_id is
\* NULL when the event has no sender
resolve_role(user_id, u, t) ==
    IF user_id = NULL THEN "unknown"
    ELSE IF Val(user_id) \in admin_ids THEN "admin"
    ELSE IF ~get_user(u, Val(user_id)).exists THEN "unknown"
    ELSE IF get_user(u, Val(user_id)).is_banned = 1 THEN "banned"
    ELSE IF get_user(u, Val(user_id)).expires_at # NULL
            /\ Val(get_user(u, Val(user_id)).expires_at) <= t THEN "expired"
    ELSE "member"

Horizon == MaxExpiryDays * SECONDS_IN_DAY

Written(op, t, d) == [op |-> op, target |-> t, days |-> d, at |-> now, old |-> users[t]]

StateIs(s, st) == fsm[s].state = st

SetState(s, st) == [fsm EXCEPT ![s].state = st]

Cleared(s) == [fsm EXCEPT ![s] = NoFsm]

\* the clock advances
Tick ==
    /\ now + TickDays * SECONDS_IN_DAY <= MaxNowDays * SECONDS_IN_DAY
    /\ now' = now + TickDays * SECONDS_IN_DAY
    /\ UNCHANGED <<users, fsm, reply, last>>
    /\ UNCHANGED <<schemaVars, catVars>>

open_admin_menu(s) ==
    /\ IF s \notin admin_ids
       THEN /\ reply' = "denied"
            /\ fsm' = fsm
       ELSE /\ reply' = "ok"
            /\ fsm' = Cleared(s)
    /\ UNCHANGED <<users, now, last>>
    /\ UNCHANGED <<schemaVars, catVars>>

\* mutant: the start handlers set the state for any sender
StartFlow_unchecked(s, shadowedBy, st) ==
    /\ fsm[s].state \notin shadowedBy
    /\ reply' = "ok"
    /\ fsm' = SetState(s, st)
    /\ UNCHANGED <<users, now, last>>
    /\ UNCHANGED <<schemaVars, catVars>>

\* add_user_start, edit_start, ban_start, delete_start: a menu button that no
\* earlier-registered state handler takes
StartFlow(s, shadowedBy, st) ==
    /\ fsm[s].state \notin shadowedBy
    /\ IF s \notin admin_ids
       THEN /\ reply' = "denied"
            /\ fsm' = fsm
       ELSE /\ reply' = "ok"
            /\ fsm' = SetState(s, st)
    /\ UNCHANGED <<users, now, last>>
    /\ UNCHANGED <<schemaVars, catVars>>

add_user_start(s) == StartFlow(s, {}, "add_target")

edit_start(s) == StartFlow(s, {"add_target", "add_days"}, "edit_target")

ban_start(s) ==
    StartFlow(s, {"add_target", "add_days", "edit_target", "edit_days"}, "ban_target")

delete_start(s) ==
    StartFlow(s, {"add_target", "add_days", "edit_target", "edit_days", "ban_target"},
              "delete_target")

\* add_user_target and edit_target (select_target): the message names principal
\* p, or resolve_target cannot tell who is meant
SelectTarget(s, st, p, resolved, next) ==
    /\ StateIs(s, st)
    /\ IF ~resolved
       THEN /\ reply' = "retry"
            /\ fsm' = fsm
       ELSE /\ reply' = "ok"
            /\ fsm' = [fsm EXCEPT ![s] = [state |-> next, target |-> Some(p)]]
    /\ UNCHANGED <<users, now, last>>
    /\ UNCHANGED <<schemaVars, catVars>>

add_user_target(s, p, resolved) == SelectTarget(s, "add_target", p, resolved, "add_days")

edit_target(s, p, resolved) == SelectTarget(s, "edit_target", p, resolved, "edit_days")

\* add_user_days (callback add:days:N) and add_user_days_manual (a typed number)
AddDays(s, d, op) ==
    /\ StateIs(s, "add_days")
    /\ now + d * SECONDS_IN_DAY <= Horizon
    /\ LET t == Val(fsm[s].target)
           expires_at == now + d * SECONDS_IN_DAY
       IN  /\ users' = upsert_user(users, t, Some(expires_at), 0)
           /\ last' = Written(op, t, d)
    /\ fsm' = Cleared(s)
    /\ reply' = "ok"
    /\ UNCHANGED now
    /\ UNCHANGED <<schemaVars, catVars>>

add_user_days(s, d) == AddDays(s, d, "add_user_days")

add_user_days_manual(s, d, digits) ==
    IF ~digits
    THEN /\ StateIs(s, "add_days")
         /\ reply' = "retry"
         /\ UNCHANGED <<users, now, fsm, last>>
         /\ UNCHANGED <<schemaVars, catVars>>
    ELSE AddDays(s, d, "add_user_days_manual")

\* row: update_expiration; no row: upsert_user with is_banned left at its default
SetExpiration(u, t, exp) ==
    IF get_user(u, t).exists THEN update_expiration(u, t, exp) ELSE upsert_user(u, t, exp, 0)

\* mutant: the extension always stacks on the stored expiry
ExtendBase_stacks_on_expired(row, t) ==
    IF ~row.exists \/ row.expires_at = NULL THEN t ELSE Val(row.expires_at)

\* the base of an extension
ExtendBase(row, t) ==
    IF ~row.exists \/ row.expires_at = NULL \/ Val(row.expires_at) < t
    THEN t ELSE Val(row.expires_at)

EditExpiry(s, d, exp, op) ==
    /\ StateIs(s, "edit_days")
    /\ IF Val(fsm[s].target) \in admin_ids
       THEN /\ reply' = "refused"
            /\ UNCHANGED <<users, fsm, last>>
       ELSE /\ exp # NULL => Val(exp) <= Horizon
            /\ users' = SetExpiration(users, Val(fsm[s].target), exp)
            /\ last' = Written(op, Val(fsm[s].target), d)
            /\ fsm' = Cleared(s)
            /\ reply' = "ok"
    /\ UNCHANGED now
    /\ UNCHANGED <<schemaVars, catVars>>

\* callback edit:plus:N
edit_plus(s, d) ==
    /\ StateIs(s, "edit_days")
    /\ EditExpiry(s, d,
            Some(ExtendBase(get_user(users, Val(fsm[s].target)), now) + d * SECONDS_IN_DAY),
            "edit_plus")

\* a message in state edit_days: a typed number sets the term, anything else is dropped
edit_set_days(s, d, digits) ==
    IF ~digits
    THEN /\ StateIs(s, "edit_days")
         /\ UNCHANGED <<users, now, fsm, reply, last>>
         /\ UNCHANGED <<schemaVars, catVars>>
    ELSE EditExpiry(s, d, Some(now + d * SECONDS_IN_DAY), "edit_set_days")

\* callback edit:forever
edit_forever(s) == EditExpiry(s, 0, NULL, "edit_forever")

ban_toggle(s, p, resolved) ==
    /\ StateIs(s, "ban_target")
    /\ IF ~resolved
       THEN /\ reply' = "retry"
            /\ UNCHANGED <<users, fsm, last>>
       ELSE IF p \in admin_ids \/ p = s
       THEN /\ reply' = "refused"
            /\ UNCHANGED <<users, fsm, last>>
       ELSE LET row == get_user(users, p)
                is_banned == ~(row.exists /\ row.is_banned = 1)
            IN  /\ users' = IF row.exists THEN set_ban(users, p, is_banned)
                            ELSE upsert_user(users, p, NULL, IF is_banned THEN 1 ELSE 0)
                /\ last' = Written("ban_toggle", p, 0)
                /\ fsm' = Cleared(s)
                /\ reply' = "ok"
    /\ UNCHANGED now
    /\ UNCHANGED <<schemaVars, catVars>>

delete_user(s, p, resolved) ==
    /\ StateIs(s, "delete_target")
    /\ IF ~resolved
       THEN /\ reply' = "retry"
            /\ UNCHANGED <<users, fsm, last>>
       ELSE IF p \in admin_ids \/ p = s
       THEN /\ reply' = "refused"
            /\ UNCHANGED <<users, fsm, last>>
       ELSE /\ users' = delete_user_row(users, p)
            /\ last' = Written("delete_user", p, 0)
            /\ fsm' = Cleared(s)
            /\ reply' = "ok"
    /\ UNCHANGED now
    /\ UNCHANGED <<schemaVars, catVars>>

\* the users table an earlier run left: empty, or holding a banned record of a
\* principal that ADMIN_IDS now names
InitialUsers == {NoUsers, [NoUsers EXCEPT ![1] = [exists |-> TRUE, expires_at |-> NULL, is_banned |-> 1]]}

InitUsers ==
    /\ SchemaIdle
    /\ CatalogIdle
    /\ users \in InitialUsers
    /\ now = 0
    /\ fsm = [s \in Senders |-> NoFsm]
    /\ reply = "none"
    /\ last = NoWrite

NextUsers ==
    \/ Tick
    \/ \E s \in Senders : open_admin_menu(s)
    \/ \E s \in Senders : add_user_start(s)
    \/ \E s \in Senders : edit_start(s)
    \/ \E s \in Senders : ban_start(s)
    \/ \E s \in Senders : delete_start(s)
    \/ \E s \in Senders, p \in Principals, r \in BOOLEAN : add_user_target(s, p, r)
    \/ \E s \in Senders, p \in Principals, r \in BOOLEAN : edit_target(s, p, r)
    \/ \E s \in Senders, d \in ButtonDays : add_user_days(s, d)
    \/ \E s \in Senders, d \in ManualDays, g \in BOOLEAN : add_user_days_manual(s, d, g)
    \/ \E s \in Senders, d \in ButtonDays : edit_plus(s, d)
    \/ \E s \in Senders, d \in ManualDays, g \in BOOLEAN : edit_set_days(s, d, g)
    \/ \E s \in Senders : edit_forever(s)
    \/ \E s \in Senders, p \in Principals, r \in BOOLEAN : ban_toggle(s, p, r)
    \/ \E s \in Senders, p \in Principals, r \in BOOLEAN : delete_user(s, p, r)

SpecUsers == InitUsers /\ [][NextUsers]_vars

-----------------------------------------------------------------------------
(* Claims about the role resolver and the admin flows *)

Max(a, b) == IF a >= b THEN a ELSE b

Banned(row) == row.exists /\ row.is_banned = 1

\* C8: resolve_role checks in a fixed order: admin set, then no record, then
\* ban flag, then expiry, else member - in every state the flows reach
C8_ResolveRoleOrder ==
    /\ resolve_role(NULL, users, now) = "unknown"
    /\ \A p \in Principals :
        LET role == resolve_role(Some(p), users, now)
            row == users[p]
        IN  /\ p \in admin_ids => role = "admin"
            /\ (p \notin admin_ids /\ ~row.exists) => role = "unknown"
            /\ (p \notin admin_ids /\ Banned(row)) => role = "banned"
            /\ (p \notin admin_ids /\ row.exists /\ ~Banned(row)
                    /\ row.expires_at # NULL /\ Val(row.expires_at) <= now)
                  => role = "expired"
            /\ (p \notin admin_ids /\ row.exists /\ ~Banned(row)
                    /\ (row.expires_at = NULL \/ Val(row.expires_at) > now))
                  => role = "member"

\* an admin with a banned record, and a principal both banned and expired
C8_Witness ==
    /\ \E a \in admin_ids :
            Banned(users[a]) /\ resolve_role(Some(a), users, now) = "admin"
    /\ \E p \in Principals \ admin_ids :
            /\ Banned(users[p])
            /\ users[p].expires_at # NULL /\ Val(users[p].expires_at) <= now
            /\ resolve_role(Some(p), users, now) = "banned"

\* C9: edit_plus by d days stores max(now, current expires_at) + d * 86400
C9_ExtendFromMaxOfNowAndExpiry ==
    last.op = "edit_plus" =>
        LET row == users[last.target]
            base == IF last.old.exists /\ last.old.expires_at # NULL
                    THEN Max(last.at, Val(last.old.expires_at)) ELSE last.at
        IN  /\ row.exists
            /\ row.expires_at = Some(base + last.days * SECONDS_IN_DAY)

\* 10 days remaining, +7d gives now + 17d
C9_Witness ==
    /\ last.op = "edit_plus" /\ last.days = 7
    /\ last.old.expires_at = Some(last.at + 10 * SECONDS_IN_DAY)
    /\ users[last.target].expires_at = Some(last.at + 17 * SECONDS_IN_DAY)

\* expired 3 days ago, +7d gives now + 7d
C9_WitnessExpired ==
    /\ last.op = "edit_plus" /\ last.days = 7
    /\ last.old.expires_at = Some(last.at - 3 * SECONDS_IN_DAY)
    /\ users[last.target].expires_at = Some(last.at + 7 * SECONDS_IN_DAY)

ExpiryOps ==
    {"add_user_days", "add_user_days_manual", "edit_plus", "edit_set_days", "edit_forever"}

\* C10: an expiry-changing operation on a banned principal leaves it banned
\* (is_banned = 1, role Banned), and a ban or unban leaves expires_at unchanged
C10_BanIndependentOfExpiry ==
    /\ (last.op \in ExpiryOps /\ Banned(last.old) /\ last.target \notin admin_ids) =>
            /\ users[last.target].is_banned = 1
            /\ resolve_role(Some(last.target), users, now) = "banned"
    /\ (last.op = "ban_toggle" /\ last.old.exists) =>
            users[last.target].expires_at = last.old.expires_at

-----------------------------------------------------------------------------
(* Strings: a Python str is the sequence of its characters.  The Cyrillic   *)
(* letter U+0436 is written "zh" and its capital U+0416 "ZH".               *)

Whitespace == {" "}

\* str.lower(): Unicode-aware
PyLowerChar(c) ==
    CASE c = "A" -> "a" [] c = "E" -> "e" [] c = "H" -> "h" [] c = "P" -> "p"
      [] c = "S" -> "s" [] c = "T" -> "t" [] c = "X" -> "x" [] c = "ZH" -> "zh"
      [] OTHER -> c

\* lower() of SQLite: only the ASCII letters are folded
SqlLowerChar(c) == IF c = "ZH" THEN c ELSE PyLowerChar(c)

py_lower(s) == [i \in 1..Len(s) |-> PyLowerChar(s[i])]

RECURSIVE lstrip(_, _)
lstrip(s, chars) ==
    IF s = <<>> \/ Head(s) \notin chars THEN s ELSE lstrip(Tail(s), chars)

RECURSIVE rstrip(_, _)
rstrip(s, chars) ==
    IF s = <<>> \/ s[Len(s)] \notin chars THEN s
    ELSE rstrip(SubSeq(s, 1, Len(s) - 1), chars)

py_strip(s) == rstrip(lstrip(s, Whitespace), Whitespace)

StartsWith(s, prefix) ==
    Len(s) >= Len(prefix) /\ SubSeq(s, 1, Len(prefix)) = prefix

HTTP == <<"h", "t", "t", "p", ":", "/", "/">>
HTTPS == <<"h", "t", "t", "p", "s", ":", "/", "/">>

\* re.sub(r"^https?://", "", u)
sub_scheme(u) ==
    IF StartsWith(u, HTTPS) THEN SubSeq(u, Len(HTTPS) + 1, Len(u))
    ELSE IF StartsWith(u, HTTP) THEN SubSeq(u, Len(HTTP) + 1, Len(u))
    ELSE u

\* normalize_url: url is NULL (None) or Some(string); so is the result
normalize_url(url) ==
    IF url = NULL \/ Val(url) = <<>> THEN NULL
    ELSE Some(rstrip(sub_scheme(py_lower(py_strip(Val(url)))), {"/"}))

-----------------------------------------------------------------------------
(* normalize_url on bounded inputs *)

MaxChunks == 3

HTTPS_UPPER == <<"H", "T", "T", "P", "S", ":", "/", "/">>
EXAMPLE_X == <<"e", "x", "a", "m", "p", "l", "e", ".", "c", "o", "m", "/", "x">>
EXAMPLE_X_CAP == <<"E", "x", "a", "m", "p", "l", "e", ".", "c", "o", "m", "/", "x">>

UrlChunks == {HTTP, HTTPS, HTTPS_UPPER, EXAMPLE_X, EXAMPLE_X_CAP, <<"/">>, <<" ">>}

RECURSIVE Concat(_)
Concat(ss) == IF ss = <<>> THEN <<>> ELSE Head(ss) \o Concat(Tail(ss))

UrlInputs ==
    {Concat(ss) : ss \in UNION {[1..n -> UrlChunks] : n \in 0..MaxChunks}}

NoCatalog == catalog = <<>> /\ saved = <<>>

NoFlows == flow = <<>> /\ posts = 0 /\ shown = {} /\ calls = <<>>

InitUrl ==
    /\ SchemaIdle /\ UsersIdle /\ NoCatalog /\ NoFlows
    /\ \E u \in UrlInputs :
          out = [op |-> "input", url |-> Some(u), key |-> NULL, again |-> NULL]

\* a caller normalizes a URL and normalizes the key it got once more
NormalizeUrl ==
    /\ out.op = "input"
    /\ LET key == normalize_url(out.url)
       IN  out' = [op |-> "normalize_url", url |-> out.url, key |-> key,
                   again |-> normalize_url(key)]
    /\ UNCHANGED <<schemaVars, userVars, catalog, saved, flow, posts, shown, calls>>

NextUrl == NormalizeUrl

SpecUrl == InitUrl /\ [][NextUrl]_vars

\* C14: normalize_url is idempotent on every input string, and the three
\* spellings "HTTPS://Example.com/x/", "example.com/x", "http://example.com/x"
\* of one address map to the same key
C14_NormalizeUrlIdempotent ==
    /\ out.op = "normalize_url" => out.again = out.key
    /\ normalize_url(Some(HTTPS_UPPER \o EXAMPLE_X_CAP \o <<"/">>)) = Some(EXAMPLE_X)
    /\ normalize_url(Some(EXAMPLE_X)) = Some(EXAMPLE_X)
    /\ normalize_url(Some(HTTP \o EXAMPLE_X)) = Some(EXAMPLE_X)

\* the three spellings of the claim alone: these do map to one key
C14_SpellingsAgree ==
    out.op = "normalize_url" =>
        /\ normalize_url(Some(HTTPS_UPPER \o EXAMPLE_X_CAP \o <<"/">>)) = Some(EXAMPLE_X)
        /\ normalize_url(Some(EXAMPLE_X)) = Some(EXAMPLE_X)
        /\ normalize_url(Some(HTTP \o EXAMPLE_X)) = Some(EXAMPLE_X)

-----------------------------------------------------------------------------
(* Titles.  A title is the string  text \o "_" * pad : the characters of    *)
(* text followed by pad copies of "_", which is neither a blank nor a cased *)
(* letter and does not occur in text.  pad lets a title reach the length    *)
(* limit of bot.py without a sequence of that length.                       *)

TITLE_MAX == 120

Title(text, pad) == [text |-> text, pad |-> pad]

TitleLen(t) == Len(t.text) + t.pad

\* str.strip() of a title
title_strip(t) ==
    IF t.pad > 0 THEN Title(lstrip(t.text, Whitespace), t.pad)
    ELSE Title(py_strip(t.text), 0)

\* lower(title) as SQLite computes it
sql_lower(t) == Title([i \in 1..Len(t.text) |-> SqlLowerChar(t.text[i])], t.pad)

\* equality of titles up to letter case, as str.lower() folds it
SameFolded(a, b) == Title(py_lower(a.text), a.pad) = Title(py_lower(b.text), b.pad)

-----------------------------------------------------------------------------
(* The catalog tables on the layout of a fresh install.  The vault chat is  *)
(* the one configured chat; source_url and created_at, which no constraint  *)
(* or lookup of these operations reads, are left out.  A file_id is the     *)
(* number of the message it was taken from: 0 for the message that added    *)
(* the item, n > 0 for the n-th other message.                              *)

CatalogLayout == create_videos_table(NoDatabase).videos

EmptyCatalog ==
    [videos |-> {}, video_categories |-> {}, favorites |-> {}, categories |-> {},
     seq |-> 0]

\* the callers pass file_id and file_unique_id of one message.video, both or
\* neither
file_id_of(file_unique_id) == IF file_unique_id = NULL THEN NULL ELSE Some(0)

\* the row INSERT INTO videos(title, file_id, file_unique_id, source_url,
\* source_url_normalized) adds under AUTOINCREMENT
NewVideo(c, title, file_unique_id, source_url) ==
    [id |-> c.seq + 1, title |-> title_strip(title),
     file_id |-> file_id_of(file_unique_id), file_unique_id |-> file_unique_id,
     url |-> normalize_url(source_url),
     storage_chat_id |-> NULL, storage_message_id |-> NULL,
     vault_chat_id |-> NULL, vault_message_id |-> NULL, needs_refresh |-> 0]

Video(c, video_id) == {r \in c.videos : r.id = video_id}

VideoIds(c) == {r.id : r \in c.videos}

Returns(c, result) == [c |-> c, raised |-> "none", result |-> result, commit |-> TRUE]

Raises(c, e) == [c |-> c, raised |-> e, result |-> NULL, commit |-> FALSE]

\* the loop of _set_categories over the rest of the list; an element that is
\* not a string (NULL) has no strip()
RECURSIVE set_categories_loop(_, _, _)
set_categories_loop(c, video_id, categories) ==
    IF categories = <<>> THEN Returns(c, NULL)
    ELSE IF Head(categories) = NULL THEN Raises(c, "AttributeError")
    ELSE IF Video(c, video_id) = {} THEN
        Raises([c EXCEPT !.categories = @ \cup Head(categories)], "IntegrityError")
    ELSE set_categories_loop(
            [c EXCEPT !.categories = @ \cup Head(categories),
                      !.video_categories =
                          @ \cup {[video_id |-> video_id, category |-> Val(Head(categories))]}],
            video_id, Tail(categories))

\* mutant: the earlier associations of the item are not deleted
set_categories_keeps_old(c, video_id, categories) ==
    set_categories_loop(c, video_id, categories)

\* _set_categories with _ensure_entity; it does not commit
set_categories(c, video_id, categories) ==
    set_categories_loop(
        [c EXCEPT !.video_categories = {a \in @ : a.video_id # video_id}],
        video_id, categories)

find_video_by_file_uid(c, uid) ==
    LET hits == {r \in c.videos : r.file_unique_id = Some(uid)}
    IN  IF hits = {} THEN NULL
        ELSE {CHOOSE r \in hits : \A o \in hits : o.id <= r.id}

find_video_by_url(c, normalized_url) ==
    {r \in c.videos : normalized_url # NULL /\ r.url = normalized_url}

\* no ORDER BY: the first row of the scan in rowid order
find_video_by_title(c, title) ==
    LET hits == {r \in c.videos : sql_lower(r.title) = sql_lower(title_strip(title))}
    IN  IF hits = {} THEN NULL
        ELSE {CHOOSE r \in hits : \A o \in hits : r.id <= o.id}

get_video(c, video_id) == Video(c, video_id)

is_favorite(c, user_id, video_id) ==
    [user_id |-> user_id, video_id |-> video_id] \in c.favorites

\* mutant: the insert does not check the uniqueness of the normalized URL
create_video_url_unchecked(c, title, file_unique_id, source_url, categories) ==
    LET n == NewVideo(c, title, file_unique_id, source_url)
        s == set_categories([c EXCEPT !.videos = @ \cup {n}, !.seq = n.id],
                            n.id, categories)
    IN  IF s.raised # "none" THEN s ELSE Returns(s.c, Some(n.id))

create_video(c, title, file_unique_id, source_url, categories) ==
    LET n == NewVideo(c, title, file_unique_id, source_url)
    IN  IF Conflicts(n, c.videos, CatalogLayout) THEN Raises(c, "IntegrityError")
        ELSE LET s == set_categories([c EXCEPT !.videos = @ \cup {n}, !.seq = n.id],
                                     n.id, categories)
             IN  IF s.raised # "none" THEN s ELSE Returns(s.c, Some(n.id))

replace_video(c, video_id, title, file_unique_id, source_url, categories) ==
    LET old == Video(c, video_id)
        upd == {[r EXCEPT !.title = title_strip(title),
                          !.file_id = file_id_of(file_unique_id),
                          !.file_unique_id = file_unique_id,
                          !.url = normalize_url(source_url)] : r \in old}
    IN  IF \E n \in upd : Conflicts(n, c.videos \ old, CatalogLayout)
        THEN Raises(c, "IntegrityError")
        ELSE LET s == set_categories([c EXCEPT !.videos = (@ \ old) \cup upd],
                                     video_id, categories)
             IN  IF s.raised # "none" THEN s ELSE Returns(s.c, NULL)

\* a plain INSERT with needs_refresh = 0: no ON CONFLICT clause, and no
\* unique index on file_unique_id in the layout
upsert_video_file(c, title, file_unique_id, source_url) ==
    LET n == NewVideo(c, title, file_unique_id, source_url)
    IN  IF Conflicts(n, c.videos, CatalogLayout) THEN Raises(c, "IntegrityError")
        ELSE Returns([c EXCEPT !.videos = @ \cup {n}, !.seq = n.id], Some(n.id))

\* INSERT ... ON CONFLICT(vault_chat_id, vault_message_id) DO UPDATE
upsert_video_by_vault(c, title, file_unique_id, source_url, vault_message_id) ==
    LET fresh == NewVideo(c, title, file_unique_id, source_url)
        n == [fresh EXCEPT !.vault_chat_id = Some("chat"),
                           !.vault_message_id = Some(vault_message_id),
                           !.storage_chat_id = Some("chat"),
                           !.storage_message_id = Some(vault_message_id)]
        old == {r \in c.videos : SamePair(n, r)}
        upd == {[n EXCEPT !.id = r.id] : r \in old}
    IN  IF old = {}
        THEN IF Conflicts(n, c.videos, CatalogLayout) THEN Raises(c, "IntegrityError")
             ELSE Returns([c EXCEPT !.videos = @ \cup {n}, !.seq = n.id], Some(n.id))
        ELSE IF \E u \in upd : Conflicts(u, c.videos \ old, CatalogLayout)
             THEN Raises(c, "IntegrityError")
             ELSE Returns([c EXCEPT !.videos = (@ \ old) \cup upd],
                          Some(Val({r.id : r \in old})))

\* mutant: the update skips the unique index on the vault pair
save_vault_message_unchecked(c, video_id, vault_message_id) ==
    Returns([c EXCEPT !.videos =
                {IF r.id = video_id
                 THEN [r EXCEPT !.vault_chat_id = Some("chat"),
                                !.vault_message_id = Some(vault_message_id),
                                !.storage_chat_id = Some("chat"),
                                !.storage_message_id = Some(vault_message_id)]
                 ELSE r : r \in @}], NULL)

save_vault_message(c, video_id, vault_message_id) ==
    LET old == Video(c, video_id)
        upd == {[r EXCEPT !.vault_chat_id = Some("chat"),
                          !.vault_message_id = Some(vault_message_id),
                          !.storage_chat_id = Some("chat"),
                          !.storage_message_id = Some(vault_message_id)] : r \in old}
    IN  IF \E n \in upd : Conflicts(n, c.videos \ old, CatalogLayout)
        THEN Raises(c, "IntegrityError")
        ELSE Returns([c EXCEPT !.videos = (@ \ old) \cup upd], NULL)

save_storage_message(c, video_id, storage_message_id) ==
    Returns([c EXCEPT !.videos =
                {IF r.id = video_id
                 THEN [r EXCEPT !.storage_chat_id = Some("chat"),
                                !.storage_message_id = Some(storage_message_id)]
                 ELSE r : r \in @}], NULL)

\* mutant: the fallback by content identity runs after the first update too
refresh_file_id_from_storage_both(c, storage_message_id, file_id, file_unique_id) ==
    LET hit == {r \in c.videos : \/ r.storage_message_id = Some(storage_message_id)
                                 \/ r.file_unique_id = Some(file_unique_id)}
    IN  Returns([c EXCEPT !.videos = (@ \ hit) \cup
                    {[r EXCEPT !.file_id = Some(file_id),
                               !.file_unique_id =
                                   IF r.storage_message_id = Some(storage_message_id)
                                   THEN Some(file_unique_id) ELSE @,
                               !.needs_refresh = 0] : r \in hit}],
                IF hit = {} THEN NULL ELSE Some(Cardinality(hit)))

\* first by the storage message, else by the content identity
refresh_file_id_from_storage(c, storage_message_id, file_id, file_unique_id) ==
    LET byMsg == {r \in c.videos : r.storage_message_id = Some(storage_message_id)}
        byUid == {r \in c.videos : r.file_unique_id = Some(file_unique_id)}
    IN  IF byMsg # {}
        THEN Returns([c EXCEPT !.videos = (@ \ byMsg) \cup
                        {[r EXCEPT !.file_id = Some(file_id),
                                   !.file_unique_id = Some(file_unique_id),
                                   !.needs_refresh = 0] : r \in byMsg}],
                     Some(Cardinality(byMsg)))
        ELSE Returns([c EXCEPT !.videos = (@ \ byUid) \cup
                        {[r EXCEPT !.file_id = Some(file_id),
                                   !.needs_refresh = 0] : r \in byUid}],
                     IF byUid = {} THEN NULL ELSE Some(Cardinality(byUid)))

mark_needs_refresh(c, video_id) ==
    Returns([c EXCEPT !.videos =
                {IF r.id = video_id THEN [r EXCEPT !.needs_refresh = 1] ELSE r : r \in @}],
            NULL)

update_title(c, video_id, title) ==
    Returns([c EXCEPT !.videos =
                {IF r.id = video_id THEN [r EXCEPT !.title = title_strip(title)] ELSE r :
                    r \in @}], NULL)

\* mutant: the favorites of a deleted item stay
delete_video_keeps_favorites(c, video_id) ==
    Returns([c EXCEPT !.videos = {r \in @ : r.id # video_id},
                      !.video_categories = {a \in @ : a.video_id # video_id}], NULL)

\* ON DELETE CASCADE of video_categories and favorites
delete_video(c, video_id) ==
    Returns([c EXCEPT !.videos = {r \in @ : r.id # video_id},
                      !.video_categories = {a \in @ : a.video_id # video_id},
                      !.favorites = {f \in @ : f.video_id # video_id}], NULL)

\* mutant: a favorite, once added, is never removed
toggle_favorite_never_deletes(c, user_id, video_id) ==
    LET f == [user_id |-> user_id, video_id |-> video_id]
    IN  IF Video(c, video_id) = {} THEN Raises(c, "IntegrityError")
        ELSE Returns([c EXCEPT !.favorites = @ \cup {f}], Some(TRUE))

toggle_favorite(c, user_id, video_id) ==
    LET f == [user_id |-> user_id, video_id |-> video_id]
    IN  IF f \in c.favorites THEN Returns([c EXCEPT !.favorites = @ \ {f}], Some(FALSE))
        ELSE IF Video(c, video_id) = {} THEN Raises(c, "IntegrityError")
        ELSE Returns([c EXCEPT !.favorites = @ \cup {f}], Some(TRUE))

\* two of the eight names of CATEGORY_OPTIONS
CATEGORY_OPTIONS == {"Easy", "Hard"}

\* the name ensure_taxonomy deletes
OBSOLETE_CATEGORY == "Other"

\* mutant: the obsolete name is not deleted
ensure_taxonomy_keeps_obsolete(c) ==
    Returns([c EXCEPT !.categories = @ \cup CATEGORY_OPTIONS], NULL)

\* INSERT OR IGNORE of every name, then DELETE of the obsolete name, which
\* cascades into video_categories
ensure_taxonomy(c) ==
    Returns([c EXCEPT !.categories = (@ \cup CATEGORY_OPTIONS) \ {OBSOLETE_CATEGORY},
                      !.video_categories =
                          {a \in @ : a.category # OBSOLETE_CATEGORY}], NULL)

-----------------------------------------------------------------------------
(* Callers of the Storage operations *)

MaxItems == 2
MaxToggles == 3

CatalogTitles == {Title(<<"a">>, 0), Title(<<" ", "ZH">>, 0)}

\* what a caller may look a title up by
TitleProbes ==
    CatalogTitles \cup
    {Title(<<"A">>, 0), Title(<<" ", "a", " ">>, 0), Title(<<"ZH">>, 0),
     Title(<<"zh">>, 0)}

\* every item of these callers is a file with the one content identity
CatalogUids == {Some("K1")}

\* two spellings of one address, or no URL
CatalogUrls == {NULL, Some(HTTP \o <<"x">>), Some(<<"X", "/">>)}

\* the second list holds an element that is no string
CategoryLists == {<<Some("Easy")>>, <<Some("Hard"), NULL>>}

FavUsers == {1, 2}

VaultMessages == {1}

NoStreak == [user_id |-> 0, video_id |-> 0, n |-> 0, start |-> FALSE]

NoAborted == [videos |-> {}, video_categories |-> {}]

\* what the history keeps of the inputs of a call
NoArgs ==
    [title |-> NULL, categories |-> <<>>, user_id |-> 0, video_id |-> 0,
     collides |-> FALSE]

NoOut ==
    [op |-> "none", raised |-> "none", result |-> NULL, before |-> EmptyCatalog,
     args |-> NoArgs, streak |-> NoStreak, aborted |-> NoAborted]

\* the normalized URL of a call is the key of an item other than its target
Collides(c, source_url, target) ==
    \E e \in c.videos :
        /\ e.id \notin target
        /\ normalize_url(source_url) # NULL
        /\ e.url = normalize_url(source_url)

\* consecutive completed toggles of one (principal, item)
Streak(op, r, a) ==
    IF op # "toggle_favorite" \/ r.raised # "none" THEN NoStreak
    ELSE IF /\ out.streak.n > 0 /\ out.streak.n < MaxToggles
            /\ out.streak.user_id = a.user_id /\ out.streak.video_id = a.video_id
         THEN [out.streak EXCEPT !.n = @ + 1]
         ELSE [user_id |-> a.user_id, video_id |-> a.video_id, n |-> 1,
               start |-> is_favorite(catalog, a.user_id, a.video_id)]

\* what a create_video that raised had written
Aborted(op, r) ==
    IF op = "create_video" /\ r.raised # "none"
    THEN [videos |-> out.aborted.videos \cup (VideoIds(r.c) \ VideoIds(catalog)),
          video_categories |->
              out.aborted.video_categories \cup
              (r.c.video_categories \ catalog.video_categories)]
    ELSE out.aborted

\* the connection runs the operation; conn.commit() writes its whole view.
\* The history keeps the catalog as the operation found it when the operation
\* raised or toggled a favorite
Call(op, r, a) ==
    /\ catalog' = r.c
    /\ saved' = IF r.commit THEN r.c ELSE saved
    /\ out' = [op |-> op, raised |-> r.raised, result |-> r.result,
               before |-> IF r.raised # "none" \/ op = "toggle_favorite"
                          THEN catalog ELSE EmptyCatalog,
               args |-> a, streak |-> Streak(op, r, a), aborted |-> Aborted(op, r)]
    /\ UNCHANGED <<schemaVars, userVars, flow, posts, shown, calls>>

CallCreateVideo(title, uid, url, cats) ==
    /\ catalog.seq < MaxItems
    /\ Call("create_video", create_video(catalog, title, uid, url, cats),
            [NoArgs EXCEPT !.title = Some(title), !.categories = cats,
                           !.collides = Collides(catalog, url, {})])

CallReplaceVideo(video_id, title, uid, url, cats) ==
    Call("replace_video", replace_video(catalog, video_id, title, uid, url, cats),
         [NoArgs EXCEPT !.collides =
                            Video(catalog, video_id) # {}
                            /\ Collides(catalog, url, {video_id})])

CallUpsertVideoFile(title, uid, url) ==
    /\ catalog.seq < MaxItems
    /\ Call("upsert_video_file", upsert_video_file(catalog, title, uid, url),
            [NoArgs EXCEPT !.title = Some(title),
                           !.collides = Collides(catalog, url, {})])

CallUpsertVideoByVault(title, uid, url, m) ==
    /\ catalog.seq < MaxItems
    /\ Call("upsert_video_by_vault", upsert_video_by_vault(catalog, title, uid, url, m),
            [NoArgs EXCEPT !.collides =
                Collides(catalog, url,
                         {r.id : r \in {x \in catalog.videos :
                                            x.vault_message_id = Some(m)}})])

CallUpdateTitle(video_id, title) ==
    Call("update_title", update_title(catalog, video_id, title), NoArgs)

CallDeleteVideo(video_id) ==
    Call("delete_video", delete_video(catalog, video_id), NoArgs)

CallToggleFavorite(user_id, video_id) ==
    Call("toggle_favorite", toggle_favorite(catalog, user_id, video_id),
         [NoArgs EXCEPT !.user_id = user_id, !.video_id = video_id])

\* bot.py: storage = Storage(); storage.ensure_taxonomy()
InitCatalog ==
    /\ SchemaIdle /\ UsersIdle /\ NoFlows
    /\ catalog = ensure_taxonomy(EmptyCatalog).c
    /\ saved = catalog
    /\ out = NoOut

NextCatalog ==
    \/ \E t \in CatalogTitles, k \in CatalogUids, u \in CatalogUrls, cs \in CategoryLists :
          CallCreateVideo(t, k, u, cs)
    \/ \E v \in 1..MaxItems, t \in CatalogTitles, k \in CatalogUids, u \in CatalogUrls,
          cs \in CategoryLists : CallReplaceVideo(v, t, k, u, cs)
    \/ \E t \in CatalogTitles, k \in CatalogUids, u \in CatalogUrls :
          CallUpsertVideoFile(t, k, u)
    \/ \E t \in CatalogTitles, k \in CatalogUids, u \in CatalogUrls, m \in VaultMessages :
          CallUpsertVideoByVault(t, k, u, m)
    \/ \E v \in 1..MaxItems, t \in CatalogTitles : CallUpdateTitle(v, t)
    \/ \E v \in 1..MaxItems : CallDeleteVideo(v)

SpecCatalog == InitCatalog /\ [][NextCatalog]_vars

\* favorites: items come and go, principals toggle
NextFavorites ==
    \/ \E t \in {Title(<<"a">>, 0)}, cs \in {<<Some("Easy")>>} :
          CallCreateVideo(t, NULL, NULL, cs)
    \/ \E v \in 1..MaxItems : CallDeleteVideo(v)
    \/ \E p \in FavUsers, v \in 1..MaxItems : CallToggleFavorite(p, v)

SpecFavorites == InitCatalog /\ [][NextFavorites]_vars

-----------------------------------------------------------------------------
(* Properties of the catalog operations *)

\* C12: storing B with the content identity of an existing item A through
\* upsert_video_file leaves a single row of that identity, which carries B's
\* title and has needs_refresh cleared
C12_UpsertKeepsOneRowPerIdentity ==
    (out.op = "upsert_video_file" /\ out.raised = "none") =>
        \A n \in Video(catalog, Val(out.result)) :
            /\ {r \in catalog.videos : r.file_unique_id = n.file_unique_id} = {n}
            /\ n.title = title_strip(Val(out.args.title))
            /\ n.needs_refresh = 0

\* C13: no two items share a non-null source_url_normalized, and a create,
\* replace or upsert whose URL normalizes to the key of another item raises an
\* integrity error and changes no item row
C13_NormalizedUrlUnique ==
    /\ \A a, b \in catalog.videos : a # b => ~SameUrl(a, b)
    /\ out.args.collides =>
            /\ out.raised = "IntegrityError"
            /\ catalog.videos = out.before.videos

C13_Witness ==
    /\ out.op = "replace_video" /\ out.args.collides
    /\ out.raised = "IntegrityError"
    /\ Cardinality(catalog.videos) = 2

\* C15: after create_video(t, ...) returned for a valid title t, a lookup by
\* any title equal to t up to letter case and surrounding blanks finds the
\* item just created
C15_CreateThenFindByTitle ==
    (/\ out.op = "create_video" /\ out.raised = "none"
     /\ TitleLen(Val(out.args.title)) \in 1..TITLE_MAX) =>
        \A p \in TitleProbes :
            SameFolded(title_strip(p), title_strip(Val(out.args.title))) =>
                find_video_by_title(catalog, p) = Video(catalog, Val(out.result))

\* C20: nothing a create_video that raised had written is ever committed,
\* and a create_video that returned has committed the item together with
\* exactly the categories it was given
C20_CreateVideoAllOrNothing ==
    /\ out.aborted.videos \cap VideoIds(saved) = {}
    /\ out.aborted.video_categories \cap saved.video_categories = {}
    /\ (out.op = "create_video" /\ out.raised = "none") =>
            /\ Video(saved, Val(out.result)) # {}
            /\ {a.category : a \in {x \in saved.video_categories :
                                       x.video_id = Val(out.result)}}
               = {Val(out.args.categories[i]) : i \in 1..Len(out.args.categories)}

\* C18: a toggle_favorite that returns flips the membership of its
\* (principal, item), returns the new membership and leaves every other
\* favorite alone; after N consecutive toggles of one pair the membership
\* differs from the one they started from exactly when N is odd, so two
\* toggles restore it
C18_ToggleFlipsMembership ==
    /\ (out.op = "toggle_favorite" /\ out.raised = "none") =>
            LET f == [user_id |-> out.args.user_id, video_id |-> out.args.video_id]
            IN  /\ (f \in catalog.favorites) = (f \notin out.before.favorites)
                /\ out.result = Some(f \in catalog.favorites)
                /\ catalog.favorites \ {f} = out.before.favorites \ {f}
    /\ out.streak.n > 0 =>
            is_favorite(catalog, out.streak.user_id, out.streak.video_id)
                = (IF out.streak.n % 2 = 1 THEN ~out.streak.start ELSE out.streak.start)

\* three toggles from 'not favorite', next to a favorite of another principal
C18_Witness ==
    /\ out.streak.n = 3 /\ ~out.streak.start
    /\ is_favorite(catalog, out.streak.user_id, out.streak.video_id)
    /\ \E g \in catalog.favorites : g.user_id # out.streak.user_id

-----------------------------------------------------------------------------
(* toggle_favorite through two Storage handles on one database file (two    *)
(* processes of the bot).  Within one process the call runs without a       *)
(* suspension point; between the processes its statements interleave.  All  *)
(* calls are for principal 1 and item 1.                                    *)

MaxCalls == 5

Handles == {1, 2}

TheFavorite == [user_id |-> 1, video_id |-> 1]

NoCall == [pc |-> "idle", row |-> FALSE, locked |-> FALSE]

\* another handle has a transaction open that wrote
LockedByOther(h) == \E o \in Handles \ {h} : calls[o].locked

Started == out.done + out.failed + Cardinality({h \in Handles : calls[h].pc # "idle"})

\* SELECT 1 FROM favorites WHERE user_id = ? AND video_id = ?
ToggleSelect(h) ==
    /\ calls[h].pc = "idle"
    /\ Started < MaxCalls
    /\ calls' = [calls EXCEPT ![h].pc = "selected",
                              ![h].row = TheFavorite \in catalog.favorites]
    /\ UNCHANGED <<schemaVars, userVars, catalog, saved, flow, posts, shown, out>>

\* if row: DELETE, commit, return False
ToggleDelete(h) ==
    /\ calls[h].pc = "selected" /\ calls[h].row
    /\ IF LockedByOther(h)
       THEN /\ out' = [out EXCEPT !.raised = "OperationalError", !.failed = @ + 1]
            /\ calls' = [calls EXCEPT ![h] = NoCall]
            /\ UNCHANGED <<catalog, saved>>
       ELSE /\ catalog' = [catalog EXCEPT !.favorites = @ \ {TheFavorite}]
            /\ saved' = catalog'
            /\ out' = [out EXCEPT !.raised = "none", !.done = @ + 1]
            /\ calls' = [calls EXCEPT ![h] = NoCall]
    /\ UNCHANGED <<schemaVars, userVars, flow, posts, shown>>

\* else: INSERT, commit, return True; a failed INSERT leaves the transaction
\* of the handle open
ToggleInsert(h) ==
    /\ calls[h].pc = "selected" /\ ~calls[h].row
    /\ IF LockedByOther(h)
       THEN /\ out' = [out EXCEPT !.raised = "OperationalError", !.failed = @ + 1]
            /\ calls' = [calls EXCEPT ![h] = NoCall]
            /\ UNCHANGED <<catalog, saved>>
       ELSE IF TheFavorite \in catalog.favorites
       THEN /\ out' = [out EXCEPT !.raised = "IntegrityError", !.failed = @ + 1]
            /\ calls' = [calls EXCEPT ![h] = [NoCall EXCEPT !.locked = TRUE]]
            /\ UNCHANGED <<catalog, saved>>
       ELSE /\ catalog' = [catalog EXCEPT !.favorites = @ \cup {TheFavorite}]
            /\ saved' = catalog'
            /\ out' = [out EXCEPT !.raised = "none", !.done = @ + 1]
            /\ calls' = [calls EXCEPT ![h] = NoCall]
    /\ UNCHANGED <<schemaVars, userVars, flow, posts, shown>>

OneItem ==
    create_video(ensure_taxonomy(EmptyCatalog).c, Title(<<"a">>, 0), NULL, NULL,
                 <<Some("Easy")>>).c

InitToggle ==
    /\ SchemaIdle /\ UsersIdle
    /\ flow = <<>> /\ posts = 0 /\ shown = {}
    /\ catalog \in {OneItem, toggle_favorite(OneItem, 1, 1).c}
    /\ saved = catalog
    /\ calls = [h \in Handles |-> NoCall]
    /\ out = [op |-> "toggle_favorite", raised |-> "none", done |-> 0, failed |-> 0,
              start |-> TheFavorite \in catalog.favorites]

NextToggle ==
    \/ \E h \in Handles : ToggleSelect(h)
    \/ \E h \in Handles : ToggleDelete(h)
    \/ \E h \in Handles : ToggleInsert(h)

SpecToggle == InitToggle /\ [][NextToggle]_vars

\* C19: under every interleaving of toggle_favorite calls for one
\* (principal, item), no call fails with a uniqueness error, and once the
\* calls have ended the membership is the starting one flipped once per
\* completed call
C19_ConcurrentTogglesAtomic ==
    /\ out.raised # "IntegrityError"
    /\ (\A h \in Handles : calls[h].pc = "idle") =>
            (TheFavorite \in catalog.favorites)
                = (IF out.done % 2 = 1 THEN ~out.start ELSE out.start)

-----------------------------------------------------------------------------
(* The add-video and edit flows of bot.py.  STORAGE_CHAT_ID names a vault   *)
(* channel and every user may manage content.  A handler is one step.  An   *)
(* inline button is pressed in the step of the flow that showed it.         *)

MaxPosts == 2

BotUsers == {1, 2}

\* what a user types as a title: a name, the same name in capitals with a
\* leading blank, a blank, and a name of TITLE_MAX + 1 characters
BotTitles ==
    {Title(<<"a">>, 0), Title(<<" ", "A">>, 0), Title(<<" ">>, 0),
     Title(<<"a">>, TITLE_MAX)}

\* the titles of the two-user flows
AddTitles == {Title(<<"a">>, 0), Title(<<" ", "A">>, 0)}

BotUids == {"K1"}

BotUrls == {HTTP \o <<"x">>}

BotCategories == {"Easy"}

NoData ==
    [file_unique_id |-> NULL, source_url |-> NULL, storage_message_id |-> NULL,
     title |-> NULL, duplicate_video_id |-> NULL, duplicate_choice |-> NULL,
     categories |-> NULL, edit_video_id |-> NULL, edit_field |-> NULL]

NoFlow == [state |-> "none", data |-> NoData]

\* pairs of items with one non-null file_unique_id
SharedUid(c) ==
    {<<a.id, b.id>> : <<a, b>> \in
        {x \in c.videos \X c.videos :
            /\ x[1].id < x[2].id
            /\ x[1].file_unique_id # NULL
            /\ x[1].file_unique_id = x[2].file_unique_id}}

\* pairs of items with titles equal up to letter case
SharedTitle(c) ==
    {<<a.id, b.id>> : <<a, b>> \in
        {x \in c.videos \X c.videos :
            x[1].id < x[2].id /\ SameFolded(x[1].title, x[2].title)}}

NoHandled ==
    [op |-> "none", user |-> 0, choice |-> NULL, dup_uid |-> FALSE,
     dup_title |-> FALSE]

\* a handler of user u ran and left the catalog c behind; the history keeps
\* the handlers that wrote
Handled(op, u, c, choice) ==
    /\ catalog' = c
    /\ saved' = c
    /\ out' = IF c = catalog THEN NoHandled
              ELSE [op |-> op, user |-> u, choice |-> choice,
                    dup_uid |-> SharedUid(c) \ SharedUid(catalog) # {},
                    dup_title |-> SharedTitle(c) \ SharedTitle(catalog) # {}]
    /\ UNCHANGED <<schemaVars, userVars, calls, shown>>

\* state.clear()
go_menu(u) == flow' = [flow EXCEPT ![u] = NoFlow]

\* /start and the menu button, in any state
menu_btn(u) ==
    /\ flow[u] # NoFlow
    /\ go_menu(u)
    /\ Handled("menu_btn", u, catalog, NULL)
    /\ UNCHANGED posts

add_video_start(u) ==
    /\ flow[u].state # "wait_video"
    /\ flow' = [flow EXCEPT ![u].state = "wait_video"]
    /\ Handled("add_video_start", u, catalog, NULL)
    /\ UNCHANGED posts

\* a video message: copied is FALSE when copy_message raised
add_video_video_file(u, uid, copied) ==
    /\ flow[u].state = "wait_video"
    /\ copied => posts < MaxPosts
    /\ LET m == IF copied THEN Some(posts + 1) ELSE NULL
           existing == find_video_by_file_uid(catalog, uid)
       IN  /\ posts' = IF copied THEN posts + 1 ELSE posts
           /\ IF existing # NULL
              THEN /\ go_menu(u)
                   /\ Handled("add_video_video", u,
                              IF copied
                              THEN save_storage_message(catalog, Val(existing).id,
                                                        Val(m)).c
                              ELSE catalog, NULL)
              ELSE /\ flow' = [flow EXCEPT
                                 ![u].state = "wait_title",
                                 ![u].data.file_unique_id = Some(uid),
                                 ![u].data.source_url = NULL,
                                 ![u].data.storage_message_id = m]
                   /\ Handled("add_video_video", u, catalog, NULL)

\* a text message: a URL when it starts with a lower-case scheme
add_video_video_text(u, text) ==
    /\ flow[u].state = "wait_video"
    /\ LET source_url == py_strip(text)
           is_url == StartsWith(source_url, HTTP) \/ StartsWith(source_url, HTTPS)
           existing == find_video_by_url(catalog, normalize_url(Some(source_url)))
       IN  IF ~is_url THEN UNCHANGED flow
           ELSE IF existing # {} THEN go_menu(u)
           ELSE flow' = [flow EXCEPT
                           ![u].state = "wait_title",
                           ![u].data.file_unique_id = NULL,
                           ![u].data.source_url = Some(source_url),
                           ![u].data.storage_message_id = NULL]
    /\ Handled("add_video_video", u, catalog, NULL)
    /\ UNCHANGED posts

add_video_title_back(u) ==
    /\ flow[u].state = "wait_title"
    /\ flow' = [flow EXCEPT ![u].state = "wait_video"]
    /\ Handled("add_video_title_back", u, catalog, NULL)
    /\ UNCHANGED posts

add_video_title(u, text) ==
    /\ flow[u].state = "wait_title"
    /\ LET title == title_strip(text)
           existing == find_video_by_title(catalog, title)
       IN  IF TitleLen(title) = 0 \/ TitleLen(title) > TITLE_MAX
           THEN UNCHANGED flow
           ELSE IF existing # NULL
           THEN flow' = [flow EXCEPT
                           ![u].data.title = Some(title),
                           ![u].data.duplicate_video_id = Some(Val(existing).id)]
           ELSE flow' = [flow EXCEPT
                           ![u].state = "wait_categories",
                           ![u].data.title = Some(title),
                           ![u].data.categories = Some(<<>>)]
    /\ Handled("add_video_title", u, catalog, NULL)
    /\ UNCHANGED posts

\* the buttons under "the title already exists"
add_duplicate_choice(u, choice) ==
    /\ flow[u].state = "wait_title"
    /\ flow[u].data.duplicate_video_id # NULL
    /\ IF choice = "rename" THEN UNCHANGED flow
       ELSE flow' = [flow EXCEPT
                       ![u].state = "wait_categories",
                       ![u].data.duplicate_choice = Some(choice),
                       ![u].data.categories = Some(<<>>)]
    /\ Handled("add_duplicate_choice", u, catalog, NULL)
    /\ UNCHANGED posts

add_categories_back(u) ==
    /\ flow[u].state = "wait_categories"
    /\ flow' = [flow EXCEPT ![u].state = "wait_title"]
    /\ Handled("add_categories_back", u, catalog, NULL)
    /\ UNCHANGED posts

\* a category button adds the category to the list or removes it
add_categories_pick(u, category) ==
    /\ flow[u].state = "wait_categories"
    /\ LET current == Val(flow[u].data.categories)
       IN  flow' = [flow EXCEPT ![u].data.categories =
                       Some(IF \E i \in 1..Len(current) : current[i] = Some(category)
                            THEN SelectSeq(current, LAMBDA c : c # Some(category))
                            ELSE Append(current, Some(category)))]
    /\ Handled("add_categories", u, catalog, NULL)
    /\ UNCHANGED posts

\* "Done": at least one category is needed
add_categories_done(u) ==
    /\ flow[u].state = "wait_categories"
    /\ IF Val(flow[u].data.categories) = <<>> THEN UNCHANGED flow
       ELSE flow' = [flow EXCEPT ![u].state = "confirm"]
    /\ Handled("add_categories", u, catalog, NULL)
    /\ UNCHANGED posts

add_confirm_back(u) ==
    /\ flow[u].state = "confirm"
    /\ flow' = [flow EXCEPT ![u].state = "wait_categories"]
    /\ Handled("add_confirm_back", u, catalog, NULL)
    /\ UNCHANGED posts

\* what add_save stores, before the storage message is recorded
SaveResult(d) ==
    IF d.duplicate_choice = Some("replace") /\ d.duplicate_video_id # NULL
    THEN LET r == replace_video(catalog, Val(d.duplicate_video_id), Val(d.title),
                                d.file_unique_id, d.source_url, Val(d.categories))
         IN  [r EXCEPT !.result = d.duplicate_video_id]
    ELSE IF d.file_unique_id # NULL
    THEN LET r == upsert_video_file(catalog, Val(d.title), d.file_unique_id,
                                    d.source_url)
         IN  IF r.raised # "none" THEN r
             ELSE [set_categories(r.c, Val(r.result), Val(d.categories))
                       EXCEPT !.result = r.result]
    ELSE create_video(catalog, Val(d.title), d.file_unique_id, d.source_url,
                      Val(d.categories))

\* the save button of the preview
add_save(u) ==
    /\ flow[u].state = "confirm"
    /\ LET d == flow[u].data
           r == SaveResult(d)
       IN  /\ d.duplicate_choice = Some("replace") \/ catalog.seq < MaxItems
           /\ IF r.raised # "none"
              THEN /\ UNCHANGED flow
                   /\ Handled("add_save", u, r.c, d.duplicate_choice)
              ELSE /\ go_menu(u)
                   /\ Handled("add_save", u,
                              IF d.file_unique_id # NULL /\ d.storage_message_id # NULL
                              THEN save_storage_message(r.c, Val(r.result),
                                                        Val(d.storage_message_id)).c
                              ELSE r.c,
                              d.duplicate_choice)
    /\ UNCHANGED posts

\* the edit button of the menu: the add-video states take the text first
edit_open(u) ==
    /\ flow[u].state \in {"none", "confirm"}
    /\ flow' = [flow EXCEPT ![u].state = "edit_wait_video"]
    /\ Handled("edit_open", u, catalog, NULL)
    /\ UNCHANGED posts

\* an item of the list shown by edit_open
video_open(u, vid) ==
    /\ flow[u].state = "edit_wait_video"
    /\ IF get_video(catalog, vid) = {} THEN UNCHANGED flow
       ELSE flow' = [flow EXCEPT ![u].data.edit_video_id = Some(vid)]
    /\ Handled("video_open", u, catalog, NULL)
    /\ UNCHANGED posts

\* the title button under the card that video_open showed
edit_title_prompt(u) ==
    /\ flow[u].state = "edit_wait_video"
    /\ flow[u].data.edit_video_id # NULL
    /\ flow' = [flow EXCEPT ![u].data.edit_field = Some("title")]
    /\ Handled("edit_title_prompt", u, catalog, NULL)
    /\ UNCHANGED posts

\* a text in the edit state that is neither Cancel nor Back
edit_message_router(u, text) ==
    /\ flow[u].state = "edit_wait_video"
    /\ LET title == title_strip(text)
       IN  IF flow[u].data.edit_field # Some("title") \/ TitleLen(title) = 0
           THEN UNCHANGED flow /\ Handled("edit_message_router", u, catalog, NULL)
           ELSE /\ go_menu(u)
                /\ Handled("edit_message_router", u,
                           update_title(catalog, Val(flow[u].data.edit_video_id),
                                        title).c, NULL)
    /\ UNCHANGED posts

\* the confirm button that edit_delete showed for the chosen item
delete_confirm(u) ==
    /\ flow[u].state = "edit_wait_video"
    /\ flow[u].data.edit_video_id # NULL
    /\ go_menu(u)
    /\ Handled("delete_confirm", u,
               delete_video(catalog, Val(flow[u].data.edit_video_id)).c, NULL)
    /\ UNCHANGED posts

\* Telegram refused the file_id of an item that is a file
video_view(u, vid) ==
    /\ get_video(catalog, vid) # {}
    /\ Val(get_video(catalog, vid)).file_unique_id # NULL
    /\ Handled("video_view", u, mark_needs_refresh(catalog, vid).c, NULL)
    /\ UNCHANGED <<flow, posts, shown>>

\* somebody posted a video in the vault channel: a message with a fresh id,
\* carrying the file_id the items were added with
vault_channel_post(uid) ==
    /\ posts < MaxPosts
    /\ posts' = posts + 1
    /\ Handled("vault_channel_post", 0,
               refresh_file_id_from_storage(catalog, posts + 1, 0, uid).c, NULL)
    /\ UNCHANGED flow

\* the handlers of the add-video flow and the vault copy
AddFlow(u, titles) ==
    \/ menu_btn(u)
    \/ add_video_start(u)
    \/ \E k \in BotUids, copied \in BOOLEAN : add_video_video_file(u, k, copied)
    \/ \E t \in BotUrls : add_video_video_text(u, t)
    \/ add_video_title_back(u)
    \/ \E t \in titles : add_video_title(u, t)
    \/ \E choice \in {"replace", "copy", "rename"} : add_duplicate_choice(u, choice)
    \/ add_categories_back(u)
    \/ \E c \in BotCategories : add_categories_pick(u, c)
    \/ add_categories_done(u)
    \/ add_confirm_back(u)
    \/ add_save(u)

\* the handlers of the edit flow
EditFlow(u, titles) ==
    \/ edit_open(u)
    \/ \E v \in 1..MaxItems : video_open(u, v)
    \/ edit_title_prompt(u)
    \/ \E t \in titles : edit_message_router(u, t)
    \/ delete_confirm(u)
    \/ \E v \in 1..MaxItems : video_view(u, v)

InitFlows(us) ==
    /\ SchemaIdle /\ UsersIdle
    /\ catalog = ensure_taxonomy(EmptyCatalog).c
    /\ saved = catalog
    /\ flow = [u \in us |-> NoFlow]
    /\ posts = 0 /\ shown = {}
    /\ calls = <<>>
    /\ out = NoHandled

\* two users add videos
InitBot == InitFlows(BotUsers)

NextBot ==
    \/ \E u \in BotUsers : AddFlow(u, AddTitles)
    \/ \E k \in BotUids : vault_channel_post(k)

SpecBot == InitBot /\ [][NextBot]_vars

\* one user adds and edits videos
InitEdit == InitFlows({1})

NextEdit ==
    \/ AddFlow(1, BotTitles)
    \/ EditFlow(1, BotTitles)
    \/ \E k \in BotUids : vault_channel_post(k)

SpecEdit == InitEdit /\ [][NextEdit]_vars

\* C11: a handler of the add-video flows or a vault refresh leaves two items
\* with one non-null file_unique_id only when it is a save whose user chose
\* one of the duplicate options
C11_OneItemPerFileUid ==
    out.dup_uid => (out.op = "add_save" /\ out.choice # NULL)

\* C16: every stored title has between 1 and TITLE_MAX characters
C16_TitleLengthBounded ==
    \A r \in catalog.videos : TitleLen(r.title) \in 1..TITLE_MAX

\* C17: a handler leaves two items with titles equal up to letter case only
\* when it is a save whose user chose "copy"
C17_EqualTitlesOnlyByCopy ==
    out.dup_title => (out.op = "add_save" /\ out.choice = Some("copy"))

-----------------------------------------------------------------------------
(* Items with their categories and favorites: create_video, replace_video,  *)
(* update_title, mark_needs_refresh, delete_video and toggle_favorite with  *)
(* ids that name an item and ids that name none.  The history keeps the     *)
(* catalog as every operation found it.                                     *)

ItemTitles == {Title(<<"a">>, 0), Title(<<"b">>, 0)}

ItemCategoryLists == {<<Some("Easy")>>, <<Some("Hard"), Some("Easy")>>}

ItemUsers == {1, 2}

\* the connection runs the operation; conn.commit() writes its whole view
Run(op, r, a) ==
    /\ catalog' = r.c
    /\ saved' = IF r.commit THEN r.c ELSE saved
    /\ out' = [op |-> op, raised |-> r.raised, result |-> r.result,
               before |-> catalog, args |-> a, streak |-> NoStreak,
               aborted |-> NoAborted]
    /\ UNCHANGED <<schemaVars, userVars, flow, posts, shown, calls>>

RunCreateVideo(title, cats) ==
    /\ catalog.seq < MaxItems
    /\ Run("create_video", create_video(catalog, title, NULL, NULL, cats),
           [NoArgs EXCEPT !.title = Some(title), !.categories = cats])

RunReplaceVideo(video_id, title, cats) ==
    Run("replace_video", replace_video(catalog, video_id, title, NULL, NULL, cats),
        [NoArgs EXCEPT !.video_id = video_id, !.title = Some(title),
                       !.categories = cats])

RunUpdateTitle(video_id, title) ==
    Run("update_title", update_title(catalog, video_id, title),
        [NoArgs EXCEPT !.video_id = video_id, !.title = Some(title)])

RunMarkNeedsRefresh(video_id) ==
    Run("mark_needs_refresh", mark_needs_refresh(catalog, video_id),
        [NoArgs EXCEPT !.video_id = video_id])

RunDeleteVideo(video_id) ==
    Run("delete_video", delete_video(catalog, video_id),
        [NoArgs EXCEPT !.video_id = video_id])

RunToggleFavorite(user_id, video_id) ==
    Run("toggle_favorite", toggle_favorite(catalog, user_id, video_id),
        [NoArgs EXCEPT !.user_id = user_id, !.video_id = video_id])

NextItems ==
    \/ \E t \in ItemTitles, cs \in ItemCategoryLists : RunCreateVideo(t, cs)
    \/ \E v \in 1..MaxItems, t \in ItemTitles, cs \in ItemCategoryLists :
          RunReplaceVideo(v, t, cs)
    \/ \E v \in 1..MaxItems, t \in ItemTitles : RunUpdateTitle(v, t)
    \/ \E v \in 1..MaxItems : RunMarkNeedsRefresh(v)
    \/ \E v \in 1..MaxItems : RunDeleteVideo(v)
    \/ \E p \in ItemUsers, v \in 1..MaxItems : RunToggleFavorite(p, v)

SpecItems == InitCatalog /\ [][NextItems]_vars

\* the rows of a dependent table that reference the item
RowsOf(rows, video_id) == {x \in rows : x.video_id = video_id}

\* C21: delete_video removes the item with all of its video_categories and
\* favorites rows; every video_categories and favorites row references an
\* existing item; a toggle_favorite for an id that names no item adds no row
C21_DeleteCascades ==
    /\ \A a \in catalog.video_categories \cup catalog.favorites :
            a.video_id \in VideoIds(catalog)
    /\ \A a \in saved.video_categories \cup saved.favorites :
            a.video_id \in VideoIds(saved)
    /\ out.op = "delete_video" =>
            /\ out.raised = "none"
            /\ Video(catalog, out.args.video_id) = {}
            /\ RowsOf(catalog.video_categories, out.args.video_id) = {}
            /\ RowsOf(catalog.favorites, out.args.video_id) = {}
    /\ (out.op = "toggle_favorite" /\ out.args.video_id \notin VideoIds(out.before)) =>
            catalog.favorites = out.before.favorites

\* an item with two categories and two favorites was deleted next to another
\* item that keeps its rows
C21_Witness ==
    /\ out.op = "delete_video"
    /\ Cardinality(RowsOf(out.before.video_categories, out.args.video_id)) = 2
    /\ Cardinality(RowsOf(out.before.favorites, out.args.video_id)) = 2
    /\ catalog.favorites # {} /\ catalog.video_categories # {}

\* a toggle for an id that names no item raised
C21_WitnessToggle ==
    /\ out.op = "toggle_favorite" /\ out.raised = "IntegrityError"
    /\ out.args.video_id \notin VideoIds(out.before)
    /\ out.before.favorites # {}

\* the names of a list of categories
NamesOf(categories) == {Val(categories[i]) : i \in 1..Len(categories)}

\* C22: a replace_video of an existing item that returns keeps the item's
\* id, the number of items and the favorites, stores the new title and leaves
\* the item with exactly the categories supplied
C22_ReplaceInPlace ==
    (/\ out.op = "replace_video" /\ out.raised = "none"
     /\ out.args.video_id \in VideoIds(out.before)) =>
        /\ VideoIds(catalog) = VideoIds(out.before)
        /\ Cardinality(catalog.videos) = Cardinality(out.before.videos)
        /\ catalog.favorites = out.before.favorites
        /\ \A r \in Video(catalog, out.args.video_id) :
                r.title = title_strip(Val(out.args.title))
        /\ {a.category : a \in RowsOf(catalog.video_categories, out.args.video_id)}
           = NamesOf(out.args.categories)
        /\ \A v \in VideoIds(catalog) \ {out.args.video_id} :
                RowsOf(catalog.video_categories, v) = RowsOf(out.before.video_categories, v)

\* an item with two categories and a favorite was replaced by one with a
\* single category
C22_Witness ==
    /\ out.op = "replace_video" /\ out.raised = "none"
    /\ Cardinality(RowsOf(out.before.video_categories, out.args.video_id)) = 2
    /\ Len(out.args.categories) = 1
    /\ RowsOf(catalog.favorites, out.args.video_id) # {}
    /\ Cardinality(catalog.videos) = 2

\* C28: update_title, mark_needs_refresh, delete_video and replace_video with
\* an id that names no item raise and leave the tables as they were
C28_MissingItemSurfaced ==
    (/\ out.op \in {"update_title", "mark_needs_refresh", "delete_video",
                    "replace_video"}
     /\ out.args.video_id \notin VideoIds(out.before)) =>
        /\ out.raised # "none"
        /\ catalog = out.before
        /\ saved = out.before

-----------------------------------------------------------------------------
(* Items and their copies in the vault channel: upsert_video_by_vault,      *)
(* save_vault_message, save_storage_message, mark_needs_refresh and         *)
(* refresh_file_id_from_storage                                             *)

MaxVaultMessages == 2

VaultTitles == {Title(<<"a">>, 0), Title(<<"b">>, 0)}

VaultUids == {"K1", "K2"}

\* what the history keeps of the inputs of a call on the vault
NoVaultArgs ==
    [title |-> NULL, video_id |-> 0, message_id |-> 0, file_id |-> NULL,
     file_unique_id |-> NULL]

RunUpsertVideoFileUid(uid) ==
    /\ catalog.seq < MaxItems
    /\ Run("upsert_video_file",
           upsert_video_file(catalog, Title(<<"a">>, 0), Some(uid), NULL),
           [NoVaultArgs EXCEPT !.file_unique_id = Some(uid)])

RunUpsertVideoByVault(title, uid, m) ==
    /\ \/ catalog.seq < MaxItems
       \/ \E r \in catalog.videos : r.vault_message_id = Some(m)
    /\ Run("upsert_video_by_vault",
           upsert_video_by_vault(catalog, title, Some(uid), NULL, m),
           [NoVaultArgs EXCEPT !.title = Some(title), !.message_id = m,
                               !.file_unique_id = Some(uid)])

RunSaveVaultMessage(video_id, m) ==
    Run("save_vault_message", save_vault_message(catalog, video_id, m),
        [NoVaultArgs EXCEPT !.video_id = video_id, !.message_id = m])

RunSaveStorageMessage(video_id, m) ==
    Run("save_storage_message", save_storage_message(catalog, video_id, m),
        [NoVaultArgs EXCEPT !.video_id = video_id, !.message_id = m])

RunMarkNeedsRefreshVault(video_id) ==
    Run("mark_needs_refresh", mark_needs_refresh(catalog, video_id),
        [NoVaultArgs EXCEPT !.video_id = video_id])

\* a post of the vault channel is handed to the refresh
RunRefreshFileId(m, uid) ==
    Run("refresh_file_id_from_storage",
        refresh_file_id_from_storage(catalog, m, 1, uid),
        [NoVaultArgs EXCEPT !.message_id = m, !.file_id = Some(1),
                            !.file_unique_id = Some(uid)])

NextVault ==
    \/ \E k \in VaultUids : RunUpsertVideoFileUid(k)
    \/ \E t \in VaultTitles, k \in VaultUids, m \in 1..MaxVaultMessages :
          RunUpsertVideoByVault(t, k, m)
    \/ \E v \in 1..MaxItems, m \in 1..MaxVaultMessages : RunSaveVaultMessage(v, m)
    \/ \E v \in 1..MaxItems, m \in 1..MaxVaultMessages : RunSaveStorageMessage(v, m)
    \/ \E v \in 1..MaxItems : RunMarkNeedsRefreshVault(v)
    \/ \E m \in 1..MaxVaultMessages, k \in VaultUids : RunRefreshFileId(m, k)

SpecVault == InitCatalog /\ [][NextVault]_vars

\* the row after a refresh by the storage message
RefreshedByMessage(r, a) ==
    [r EXCEPT !.file_id = a.file_id, !.file_unique_id = a.file_unique_id,
              !.needs_refresh = 0]

\* the row after a refresh by the content identity
RefreshedByIdentity(r, a) == [r EXCEPT !.file_id = a.file_id, !.needs_refresh = 0]

\* C23: refresh_file_id_from_storage(m, f, u) updates the items stored under
\* message m and then no other item; when there is none it updates the items
\* of content identity u; when there is none either it returns None and
\* changes no row
C23_RefreshTwoTiers ==
    out.op = "refresh_file_id_from_storage" =>
        LET a == out.args
            byMsg == {r \in out.before.videos : r.storage_message_id = Some(a.message_id)}
            byUid == {r \in out.before.videos : r.file_unique_id = a.file_unique_id}
        IN  /\ out.raised = "none"
            /\ byMsg # {} =>
                  /\ catalog.videos = (out.before.videos \ byMsg)
                                      \cup {RefreshedByMessage(r, a) : r \in byMsg}
                  /\ out.result = Some(Cardinality(byMsg))
            /\ (byMsg = {} /\ byUid # {}) =>
                  /\ catalog.videos = (out.before.videos \ byUid)
                                      \cup {RefreshedByIdentity(r, a) : r \in byUid}
                  /\ out.result = Some(Cardinality(byUid))
            /\ (byMsg = {} /\ byUid = {}) =>
                  /\ catalog = out.before
                  /\ out.result = NULL
            /\ [catalog EXCEPT !.videos = {}] = [out.before EXCEPT !.videos = {}]

\* the first tier updated one item and left alone an item of the same
\* content identity that waits for a refresh
C23_Witness ==
    /\ out.op = "refresh_file_id_from_storage" /\ out.result = Some(1)
    /\ \E r \in catalog.videos :
          /\ r.storage_message_id = Some(out.args.message_id)
          /\ r.file_id = out.args.file_id /\ r.needs_refresh = 0
    /\ \E r \in catalog.videos :
          /\ r.storage_message_id # Some(out.args.message_id)
          /\ r.file_unique_id = out.args.file_unique_id
          /\ r.needs_refresh = 1 /\ r.file_id # out.args.file_id

\* the fallback updated two items of the content identity
C23_WitnessFallback ==
    /\ out.op = "refresh_file_id_from_storage" /\ out.result = Some(2)
    /\ \A r \in out.before.videos :
          r.storage_message_id # Some(out.args.message_id) /\ r.needs_refresh = 1

\* the item that holds the vault pair (chat, m)
HoldsPair(c, m) ==
    {r \in c.videos : r.vault_chat_id # NULL /\ r.vault_message_id = Some(m)}

C24_WitnessCollision ==
    /\ out.op = "save_vault_message" /\ out.raised = "IntegrityError"
    /\ catalog = out.before

-----------------------------------------------------------------------------
(* The category vocabulary: items of earlier runs carry the obsolete        *)
(* category or a name outside the vocabulary, and the bot starts again.     *)

TaxonomyCategoryLists ==
    {<<Some(OBSOLETE_CATEGORY)>>, <<Some(OBSOLETE_CATEGORY), Some("Easy")>>,
     <<Some("Custom")>>}

RunEnsureTaxonomy == Run("ensure_taxonomy", ensure_taxonomy(catalog), NoArgs)

\* Storage() on a new file: no category yet
InitTaxonomy ==
    /\ SchemaIdle /\ UsersIdle /\ NoFlows
    /\ catalog = EmptyCatalog
    /\ saved = catalog
    /\ out = NoOut

NextTaxonomy ==
    \/ RunEnsureTaxonomy
    \/ \E t \in ItemTitles, cs \in TaxonomyCategoryLists : RunCreateVideo(t, cs)
    \/ \E v \in 1..MaxItems : RunDeleteVideo(v)
    \/ \E p \in ItemUsers, v \in 1..MaxItems : RunToggleFavorite(p, v)

SpecTaxonomy == InitTaxonomy /\ [][NextTaxonomy]_vars

\* C29: ensure_taxonomy adds the missing names of the vocabulary, removes the
\* obsolete category with its associations and nothing else, leaves the items
\* and the favorites as they were, and a second run changes nothing
C29_TaxonomyPruned ==
    out.op = "ensure_taxonomy" =>
        /\ out.raised = "none"
        /\ CATEGORY_OPTIONS \subseteq catalog.categories
        /\ OBSOLETE_CATEGORY \notin catalog.categories
        /\ catalog.categories \ CATEGORY_OPTIONS
           = out.before.categories \ (CATEGORY_OPTIONS \cup {OBSOLETE_CATEGORY})
        /\ catalog.video_categories
           = {a \in out.before.video_categories : a.category # OBSOLETE_CATEGORY}
        /\ catalog.videos = out.before.videos
        /\ catalog.favorites = out.before.favorites
        /\ saved = catalog
        /\ ensure_taxonomy(catalog).c = catalog

\* the run found two items, one of them with the obsolete category alone and
\* a favorite, and a vocabulary with names missing
C29_Witness ==
    /\ out.op = "ensure_taxonomy"
    /\ Cardinality(catalog.videos) = 2
    /\ ~(CATEGORY_OPTIONS \subseteq out.before.categories)
    /\ \E r \in catalog.videos :
          /\ {a.category : a \in RowsOf(out.before.video_categories, r.id)}
             = {OBSOLETE_CATEGORY}
          /\ RowsOf(catalog.video_categories, r.id) = {}
          /\ RowsOf(catalog.favorites, r.id) # {}
    /\ \E a \in catalog.video_categories : a.category = "Custom"

-----------------------------------------------------------------------------
(* The paginated listings of Storage on a catalog of many items *)

PAGE_SIZE == 10
TITLE_LIST_PAGE_SIZE == 15

MaxListed == 31
MaxPage == 4

\* ORDER BY id DESC
RECURSIVE OrderByIdDesc(_)
OrderByIdDesc(rows) ==
    IF rows = {} THEN <<>>
    ELSE LET top == CHOOSE r \in rows : \A o \in rows : o.id <= r.id
         IN  <<top>> \o OrderByIdDesc(rows \ {top})

\* LIMIT ? OFFSET ?
LimitOffset(s, limit, offset) ==
    [i \in 1..(IF Len(s) - offset < 0 THEN 0
               ELSE IF Len(s) - offset < limit THEN Len(s) - offset ELSE limit)
        |-> s[offset + i]]

\* mutant: the quotient is rounded down
page_count_floor(total, size) == IF total # 0 THEN total \div size ELSE 0

\* ceil(total / size) if total else 0
page_count(total, size) ==
    IF total # 0
    THEN (total \div size) + (IF total % size # 0 THEN 1 ELSE 0)
    ELSE 0

\* s LIKE '%q%': LIKE folds the case of ASCII letters
Like(s, q) ==
    LET fs == [i \in 1..Len(s) |-> SqlLowerChar(s[i])]
        fq == [i \in 1..Len(q) |-> SqlLowerChar(q[i])]
    IN  \E i \in 0..(Len(fs) - Len(fq)) : SubSeq(fs, i + 1, i + Len(fq)) = fq

list_all_videos(c, page) ==
    [rows |-> LimitOffset(OrderByIdDesc(c.videos), PAGE_SIZE, page * PAGE_SIZE),
     pages |-> page_count(Cardinality(c.videos), PAGE_SIZE)]

list_titles(c, page) ==
    [rows |-> LimitOffset(OrderByIdDesc(c.videos), TITLE_LIST_PAGE_SIZE,
                          page * TITLE_LIST_PAGE_SIZE),
     pages |-> page_count(Cardinality(c.videos), TITLE_LIST_PAGE_SIZE)]

\* the total counts the rows of favorites, the page joins them with videos
favorites(c, user_id, page) ==
    [rows |-> LimitOffset(
                  OrderByIdDesc({v \in c.videos :
                                    [user_id |-> user_id, video_id |-> v.id] \in c.favorites}),
                  PAGE_SIZE, page * PAGE_SIZE),
     pages |-> page_count(Cardinality({f \in c.favorites : f.user_id = user_id}),
                          PAGE_SIZE)]

\* search("title", query, page)
search_title(c, query, page) ==
    LET q == py_lower(py_strip(query))
        base == {v \in c.videos : Like(sql_lower(v.title).text, q)}
    IN  [rows |-> LimitOffset(OrderByIdDesc(base), PAGE_SIZE, page * PAGE_SIZE),
         pages |-> page_count(Cardinality(base), PAGE_SIZE)]

\* the title of the i-th item of a listed catalog
ListedTitle(i) ==
    IF i % 2 = 1 THEN Title(<<"a", "b">>, 0)
    ELSE IF i % 4 = 0 THEN Title(<<"A">>, 0) ELSE Title(<<"ZH">>, 0)

\* a catalog of the items 1..n without those deleted (every gap-th), with the
\* favorites of two users
ListedCatalog(n, gap) ==
    LET ids == {i \in 1..n : gap = 0 \/ i % gap # 0}
    IN  [EmptyCatalog EXCEPT
            !.videos = {NewVideo([seq |-> i - 1], ListedTitle(i), NULL, NULL) : i \in ids},
            !.favorites = {[user_id |-> 1, video_id |-> i] : i \in {j \in ids : j % 2 = 0}}
                          \cup {[user_id |-> 2, video_id |-> i] : i \in ids},
            !.seq = n]

ListedQueries == {<<"a">>, <<" ", "B">>, <<"ZH">>, <<>>}

NoListing ==
    [op |-> "none", user_id |-> 0, query |-> <<>>, page |-> 0, rows |-> <<>>,
     pages |-> 0]

\* a listing is called and returns
Listed(op, user_id, query, page, r) ==
    /\ out' = [op |-> op, user_id |-> user_id, query |-> query, page |-> page,
               rows |-> [i \in 1..Len(r.rows) |-> r.rows[i].id], pages |-> r.pages]
    /\ UNCHANGED <<schemaVars, userVars, catalog, saved, flow, posts, shown, calls>>

CallListAllVideos(page) ==
    Listed("list_all_videos", 0, <<>>, page, list_all_videos(catalog, page))

CallListTitles(page) ==
    Listed("list_titles", 0, <<>>, page, list_titles(catalog, page))

CallFavorites(user_id, page) ==
    Listed("favorites", user_id, <<>>, page, favorites(catalog, user_id, page))

CallSearchTitle(query, page) ==
    Listed("search", 0, query, page, search_title(catalog, query, page))

InitPages ==
    /\ SchemaIdle /\ UsersIdle /\ NoFlows
    /\ \E n \in 0..MaxListed, gap \in {0, 3} : catalog = ListedCatalog(n, gap)
    /\ saved = catalog
    /\ out = NoListing

NextPages ==
    \/ \E p \in 0..MaxPage : CallListAllVideos(p)
    \/ \E p \in 0..MaxPage : CallListTitles(p)
    \/ \E u \in {1, 2, 3}, p \in 0..MaxPage : CallFavorites(u, p)
    \/ \E q \in ListedQueries, p \in 0..MaxPage : CallSearchTitle(q, p)

SpecPages == InitPages /\ [][NextPages]_vars

\* the ids of the rows the listing of the history matches, in descending order
MatchingIds ==
    LET S == IF out.op = "favorites"
             THEN {f.video_id : f \in {g \in catalog.favorites :
                                           g.user_id = out.user_id}}
             ELSE IF out.op = "search"
             THEN {v.id : v \in {w \in catalog.videos :
                        Like(sql_lower(w.title).text, py_lower(py_strip(out.query)))}}
             ELSE VideoIds(catalog)
         desc == OrderByIdDesc({[id |-> i] : i \in S})
    IN  [i \in 1..Len(desc) |-> desc[i].id]

PageSizeOf(op) == IF op = "list_titles" THEN TITLE_LIST_PAGE_SIZE ELSE PAGE_SIZE

\* the rows of page p of the listing of the history
PageOf(p) ==
    LET r == IF out.op = "favorites" THEN favorites(catalog, out.user_id, p)
             ELSE IF out.op = "search" THEN search_title(catalog, out.query, p)
             ELSE IF out.op = "list_titles" THEN list_titles(catalog, p)
             ELSE list_all_videos(catalog, p)
    IN  [i \in 1..Len(r.rows) |-> r.rows[i].id]

\* C30: the page count is the least number of pages of the page size that
\* hold all matching rows; page p holds the rows at positions
\* [p * size, (p + 1) * size) of the matching rows in descending id order; the
\* pages 0 .. pages - 1 together are the matching rows, each once
C30_PagesCoverRows ==
    out.op # "none" =>
        LET size == PageSizeOf(out.op)
            all == MatchingIds
        IN  /\ out.pages * size >= Len(all)
            /\ out.pages > 0 => (out.pages - 1) * size < Len(all)
            /\ Len(out.rows) <= size
            /\ \A i \in 1..Len(out.rows) : out.rows[i] = all[out.page * size + i]
            /\ \A i \in 1..size :
                  out.page * size + i <= Len(all) => i <= Len(out.rows)
            /\ Concat([p \in 1..out.pages |-> PageOf(p - 1)]) = all

\* the last of three pages of favorites, not full, of a catalog with gaps
C30_Witness ==
    /\ out.op = "favorites" /\ out.pages = 3 /\ out.page = 2
    /\ Len(out.rows) \in 1..(PAGE_SIZE - 1)
    /\ Cardinality(catalog.videos) < catalog.seq

\* a title search whose matches fill two pages exactly
C30_WitnessSearch ==
    /\ out.op = "search" /\ out.pages = 2 /\ out.page = 1
    /\ Len(out.rows) = PAGE_SIZE
    /\ Cardinality(catalog.videos) > 2 * PAGE_SIZE

-----------------------------------------------------------------------------
(* The users table with all its columns: UsersStorage of storage_users.py *)

RecordIds == {1, 2}

\* username and full_name as aiogram reports them for a sender
RecordNames == {[username |-> NULL, full_name |-> Some("Ann")],
                [username |-> Some("ann"), full_name |-> NULL]}

RecordExpiries == {NULL, Some(7 * SECONDS_IN_DAY)}

RecordNotes == {NULL, Some("vip"), Some("trial")}

UserRecord(telegram_id, username, full_name, expires_at, is_banned, note, created_at, updated_at) ==
    [telegram_id |-> telegram_id, username |-> username, full_name |-> full_name,
     expires_at |-> expires_at, is_banned |-> is_banned, note |-> note,
     created_at |-> created_at, updated_at |-> updated_at]

\* SELECT * FROM users WHERE telegram_id = ?  (no row, or the one row)
UsersStorage_get_user(rows, telegram_id) ==
    {r \in rows : r.telegram_id = telegram_id}

\* mutant: note = excluded.note
UsersStorage_upsert_user_overwrites_note(rows, ts, telegram_id, username, full_name, expires_at, is_banned, note) ==
    LET old == UsersStorage_get_user(rows, telegram_id)
    IN  IF old = NULL
        THEN rows \cup {UserRecord(telegram_id, username, full_name, expires_at,
                                   is_banned, note, ts, ts)}
        ELSE (rows \ old) \cup
             {[Val(old) EXCEPT !.username = username, !.full_name = full_name,
                               !.expires_at = expires_at, !.is_banned = is_banned,
                               !.note = note, !.updated_at = ts]}

\* INSERT INTO users ... ON CONFLICT(telegram_id) DO UPDATE SET username,
\* full_name, expires_at, is_banned = excluded.*, note = COALESCE(excluded.note,
\* users.note), updated_at = excluded.updated_at; ts is int(time.time())
UsersStorage_upsert_user(rows, ts, telegram_id, username, full_name, expires_at, is_banned, note) ==
    LET old == UsersStorage_get_user(rows, telegram_id)
    IN  IF old = NULL
        THEN rows \cup {UserRecord(telegram_id, username, full_name, expires_at,
                                   is_banned, note, ts, ts)}
        ELSE (rows \ old) \cup
             {[Val(old) EXCEPT !.username = username, !.full_name = full_name,
                               !.expires_at = expires_at, !.is_banned = is_banned,
                               !.note = COALESCE(note, @), !.updated_at = ts]}

\* UPDATE users SET expires_at = ?, updated_at = ? WHERE telegram_id = ?
UsersStorage_update_expiration(rows, ts, telegram_id, expires_at) ==
    {IF r.telegram_id = telegram_id
     THEN [r EXCEPT !.expires_at = expires_at, !.updated_at = ts] ELSE r : r \in rows}

\* UPDATE users SET is_banned = ?, updated_at = ? WHERE telegram_id = ?
UsersStorage_set_ban(rows, ts, telegram_id, is_banned) ==
    {IF r.telegram_id = telegram_id
     THEN [r EXCEPT !.is_banned = IF is_banned THEN 1 ELSE 0, !.updated_at = ts]
     ELSE r : r \in rows}

\* DELETE FROM users WHERE telegram_id = ?
UsersStorage_delete_user(rows, telegram_id) ==
    {r \in rows : r.telegram_id # telegram_id}

NoRecordWrite ==
    [op |-> "none", telegram_id |-> 0, names |-> NULL, expires_at |-> NULL,
     is_banned |-> 0, note |-> NULL, at |-> 0, old |-> NULL]

\* history: the write, its arguments, the clock it read and the record it found
Recorded(op, telegram_id, names, expires_at, is_banned, note, rows) ==
    /\ users' = rows
    /\ last' = [op |-> op, telegram_id |-> telegram_id, names |-> names,
                expires_at |-> expires_at, is_banned |-> is_banned, note |-> note,
                at |-> now, old |-> UsersStorage_get_user(users, telegram_id)]
    /\ UNCHANGED <<now, fsm, reply>>
    /\ UNCHANGED <<schemaVars, catVars>>

WriteUpsertUser(telegram_id, names, expires_at, is_banned, note) ==
    Recorded("upsert_user", telegram_id, Some(names), expires_at, is_banned, note,
            UsersStorage_upsert_user(users, now, telegram_id, names.username,
                                     names.full_name, expires_at, is_banned, note))

WriteUpdateExpiration(telegram_id, expires_at) ==
    Recorded("update_expiration", telegram_id, NULL, expires_at, 0, NULL,
            UsersStorage_update_expiration(users, now, telegram_id, expires_at))

WriteSetBan(telegram_id, is_banned) ==
    Recorded("set_ban", telegram_id, NULL, NULL, IF is_banned THEN 1 ELSE 0, NULL,
            UsersStorage_set_ban(users, now, telegram_id, is_banned))

WriteDeleteUser(telegram_id) ==
    Recorded("delete_user", telegram_id, NULL, NULL, 0, NULL,
            UsersStorage_delete_user(users, telegram_id))

\* the arguments upsert_user is called with: every combination for the first
\* principal, one for each other principal
RecordInputs(telegram_id) ==
    IF telegram_id = 1
    THEN RecordNames \X RecordExpiries \X {0, 1} \X RecordNotes
    ELSE {<<[username |-> Some("bob"), full_name |-> NULL], NULL, 0, Some("vip")>>}

InitRecords ==
    /\ SchemaIdle /\ CatalogIdle
    /\ users = {} /\ now = 0 /\ fsm = <<>> /\ reply = "none"
    /\ last = NoRecordWrite

NextRecords ==
    \/ Tick
    \/ \E t \in RecordIds : \E a \in RecordInputs(t) :
          WriteUpsertUser(t, a[1], a[2], a[3], a[4])
    \/ \E t \in RecordIds, e \in RecordExpiries : WriteUpdateExpiration(t, e)
    \/ \E t \in RecordIds, b \in BOOLEAN : WriteSetBan(t, b)
    \/ \E t \in RecordIds : WriteDeleteUser(t)

SpecRecords == InitRecords /\ [][NextRecords]_vars

\* the record of the principal of the last write, as the table holds it now
Stored == Val(UsersStorage_get_user(users, last.telegram_id))

\* C25: upsert_user on a stored principal overwrites username, full_name,
\* expires_at, is_banned and updated_at and keeps created_at; it keeps the
\* stored note when called with note = None and replaces it when called with a
\* note; update_expiration and set_ban leave the note as it was
C25_NoteSticky ==
    last.old # NULL =>
        LET old == Val(last.old)
        IN  /\ last.op = "upsert_user" =>
                /\ Stored.username = Val(last.names).username
                /\ Stored.full_name = Val(last.names).full_name
                /\ Stored.expires_at = last.expires_at
                /\ Stored.is_banned = last.is_banned
                /\ Stored.updated_at = last.at
                /\ Stored.created_at = old.created_at
                /\ (last.note = NULL => Stored.note = old.note)
                /\ (last.note # NULL => Stored.note = last.note)
            /\ last.op \in {"update_expiration", "set_ban"} =>
                /\ Stored.note = old.note
                /\ Stored.created_at = old.created_at

\* upsert_user without a note on a record that has one, at a later time, with
\* every overwritten column taking a new value
C25_Witness ==
    /\ last.op = "upsert_user" /\ last.old # NULL /\ last.note = NULL
    /\ Val(last.old).note # NULL
    /\ Stored.note = Val(last.old).note
    /\ Stored.updated_at > Stored.created_at
    /\ Stored.username # Val(last.old).username
    /\ Stored.expires_at # Val(last.old).expires_at
    /\ Stored.is_banned # Val(last.old).is_banned

\* upsert_user with a note replacing a different stored note
C25_WitnessReplaced ==
    /\ last.op = "upsert_user" /\ last.old # NULL /\ last.note # NULL
    /\ Val(last.old).note # NULL /\ Val(last.old).note # last.note
    /\ Stored.note = last.note

\* set_ban on a record that has a note
C25_WitnessBan ==
    /\ last.op = "set_ban" /\ last.old # NULL /\ Val(last.old).note # NULL
    /\ Stored.is_banned # Val(last.old).is_banned

-----------------------------------------------------------------------------
(* The listings of UsersStorage and render_list of admin_handlers.py *)

LIST_PAGE_SIZE == 20

MaxRecords == 30
MaxListPage == 2

\* the horizon of render_list: until = now + 7 * SECONDS_IN_DAY
HorizonDays == 7

\* the tables the listings run on: records 1..n as upsert_user leaves them,
\* every ninth without an expiry, every tenth banned, the expiries spread over
\* `spread` days
ListedUsers(n, spread) ==
    {UserRecord(i, NULL, NULL,
                IF i % 9 = 0 THEN NULL ELSE Some(((i * 3) % spread) * SECONDS_IN_DAY),
                IF i % 10 = 3 THEN 1 ELSE 0, NULL, 0, 0) : i \in 1..n}

\* now, until and offset of the direct calls
ListTimes == {0, SECONDS_IN_DAY}
ListUntils == {0, 4 * SECONDS_IN_DAY}
ListOffsets == {5, LIST_PAGE_SIZE}

\* the sizes of the tables: MaxRecords and every sixth size below it
ListSizes == {n \in 0..MaxRecords : (MaxRecords - n) % 6 = 0}

\* SQL comparisons: NULL when an operand is NULL
SqlGreater(x, y) == IF x = NULL THEN NULL ELSE Some(Val(x) > y)
SqlBetween(x, lo, hi) == IF x = NULL THEN NULL ELSE Some(lo <= Val(x) /\ Val(x) <= hi)
SqlAnd(conds) ==
    IF Some(FALSE) \in conds THEN Some(FALSE)
    ELSE IF NULL \in conds THEN NULL ELSE Some(TRUE)

\* mutant: expires_at >= ?
ActiveWhere_inclusive(r, at) ==
    SqlAnd({Some(r.is_banned = 0), Some(r.expires_at # NULL),
            SqlBetween(r.expires_at, at, Val(r.expires_at))}) = Some(TRUE)

\* WHERE is_banned = 0 AND expires_at IS NOT NULL AND expires_at > ?
ActiveWhere(r, at) ==
    SqlAnd({Some(r.is_banned = 0), Some(r.expires_at # NULL),
            SqlGreater(r.expires_at, at)}) = Some(TRUE)

\* mutant: expires_at > ? AND expires_at <= ?
ExpiringWhere_exclusive(r, at, until) ==
    SqlAnd({Some(r.is_banned = 0), SqlGreater(r.expires_at, at),
            SqlBetween(r.expires_at, at, until)}) = Some(TRUE)

\* WHERE is_banned = 0 AND expires_at BETWEEN ? AND ?
ExpiringWhere(r, at, until) ==
    SqlAnd({Some(r.is_banned = 0), SqlBetween(r.expires_at, at, until)}) = Some(TRUE)

\* ORDER BY expires_at ASC over rows with an expiry; SQL leaves the order of
\* rows with equal expires_at open: `ties` is ascending or descending
\* telegram_id
RECURSIVE OrderByExpiresAsc(_, _)
OrderByExpiresAsc(rows, ties) ==
    IF rows = {} THEN <<>>
    ELSE LET first == CHOOSE r \in rows : \A o \in rows :
                 \/ Val(r.expires_at) < Val(o.expires_at)
                 \/ /\ Val(r.expires_at) = Val(o.expires_at)
                    /\ IF ties = "asc" THEN r.telegram_id <= o.telegram_id
                       ELSE r.telegram_id >= o.telegram_id
         IN  <<first>> \o OrderByExpiresAsc(rows \ {first}, ties)

UsersStorage_list_active(rows, at, offset, ties) ==
    LimitOffset(OrderByExpiresAsc({r \in rows : ActiveWhere(r, at)}, ties),
                LIST_PAGE_SIZE, offset)

UsersStorage_count_active(rows, at) ==
    Cardinality({r \in rows : ActiveWhere(r, at)})

UsersStorage_list_expiring(rows, at, until, offset, ties) ==
    LimitOffset(OrderByExpiresAsc({r \in rows : ExpiringWhere(r, at, until)}, ties),
                LIST_PAGE_SIZE, offset)

UsersStorage_count_expiring(rows, at, until) ==
    Cardinality({r \in rows : ExpiringWhere(r, at, until)})

\* pages = ceil(total / LIST_PAGE_SIZE) if total else 1
list_pages(total) == IF total # 0 THEN page_count(total, LIST_PAGE_SIZE) ELSE 1

NoUserListing ==
    [op |-> "none", by |-> "none", at |-> 0, until |-> 0, offset |-> 0,
     rows |-> <<>>, total |-> 0, pages |-> 0]

\* history: the listing, its arguments, the ids of its rows and the count
UserListing(by, expiring, at, until, offset, ties) ==
    LET rows == IF expiring
                THEN UsersStorage_list_expiring(users, at, until, offset, ties)
                ELSE UsersStorage_list_active(users, at, offset, ties)
        total == IF expiring THEN UsersStorage_count_expiring(users, at, until)
                 ELSE UsersStorage_count_active(users, at)
    IN  /\ last' = [op |-> IF expiring THEN "expiring" ELSE "active", by |-> by,
                    at |-> at, until |-> IF expiring THEN until ELSE 0,
                    offset |-> offset,
                    rows |-> [i \in 1..Len(rows) |-> rows[i].telegram_id],
                    total |-> total, pages |-> list_pages(total)]
        /\ UNCHANGED <<users, now, fsm, reply>>
        /\ UNCHANGED <<schemaVars, catVars>>

render_list(expiring, page, ties) ==
    UserListing("render_list", expiring, now, now + HorizonDays * SECONDS_IN_DAY,
                page * LIST_PAGE_SIZE, ties)

\* list_active / list_expiring and their counts called with any arguments
CallUserListing(expiring, at, until, offset, ties) ==
    UserListing("call", expiring, at, until, offset, ties)

InitLists ==
    /\ SchemaIdle /\ CatalogIdle
    /\ \E n \in ListSizes, spread \in {5, 11} : users = ListedUsers(n, spread)
    /\ now = 0 /\ fsm = <<>> /\ reply = "none"
    /\ last = NoUserListing

NextLists ==
    \/ Tick
    \/ \E e \in BOOLEAN, p \in 0..MaxListPage, t \in {"asc", "desc"} :
          render_list(e, p, t)
    \/ \E e \in BOOLEAN, a \in ListTimes, u \in ListUntils, o \in ListOffsets,
          t \in {"asc", "desc"} : CallUserListing(e, a, u, o, t)

SpecLists == InitLists /\ [][NextLists]_vars

\* the record the table holds for the i-th row of the last listing
ListedRecord(i) == Val(UsersStorage_get_user(users, last.rows[i]))

\* the rows of the last listing are rows of `match`, each once, in ascending
\* expires_at order, and they are the rows at positions offset + 1 ..
\* offset + LIST_PAGE_SIZE of that order as far as it reaches; total counts match
ListsPageOf(match) ==
    /\ last.total = Cardinality(match)
    /\ \A i \in 1..Len(last.rows) : ListedRecord(i) \in match
    /\ \A i, j \in 1..Len(last.rows) :
          i < j => /\ last.rows[i] # last.rows[j]
                   /\ Val(ListedRecord(i).expires_at) <= Val(ListedRecord(j).expires_at)
    /\ Len(last.rows) <= LIST_PAGE_SIZE
    /\ \/ Len(last.rows) = LIST_PAGE_SIZE
       \/ Len(last.rows) = Cardinality(match) - last.offset
       \/ Len(last.rows) = 0 /\ Cardinality(match) <= last.offset
    /\ \A i \in 1..Len(last.rows) :
          LET e == Val(ListedRecord(i).expires_at)
          IN  /\ Cardinality({r \in match : Val(r.expires_at) < e}) <= last.offset + i - 1
              /\ Cardinality({r \in match : Val(r.expires_at) <= e}) >= last.offset + i

\* C26: list_active(now, offset) returns the records with is_banned = 0, an
\* expiry and expires_at > now, in ascending expires_at order, at most
\* LIST_PAGE_SIZE of them starting at offset; count_active(now) is their
\* number; no record without an expiry is returned
C26_ListActive ==
    last.op = "active" =>
        /\ ListsPageOf({r \in users : /\ r.is_banned = 0 /\ r.expires_at # NULL
                                      /\ Val(r.expires_at) > last.at})
        /\ \A i \in 1..Len(last.rows) : ListedRecord(i).expires_at # NULL

\* the second page of the active records, not full, of a table that also holds
\* banned records, records without an expiry and a record expiring now
C26_Witness ==
    /\ last.op = "active" /\ last.offset = LIST_PAGE_SIZE
    /\ Len(last.rows) \in 1..(LIST_PAGE_SIZE - 1)
    /\ \E r \in users : r.is_banned = 1 /\ r.expires_at # NULL
                        /\ Val(r.expires_at) > last.at
    /\ \E r \in users : r.expires_at = NULL /\ r.is_banned = 0
    /\ \E r \in users : r.is_banned = 0 /\ r.expires_at = Some(last.at)

\* C27: list_expiring(now, until, offset) returns the records with
\* is_banned = 0 and now <= expires_at <= until, in ascending expires_at order,
\* at most LIST_PAGE_SIZE of them starting at offset; count_expiring(now, until)
\* is their number; no record without an expiry is returned
C27_ListExpiring ==
    last.op = "expiring" =>
        /\ ListsPageOf({r \in users : /\ r.is_banned = 0 /\ r.expires_at # NULL
                                      /\ last.at <= Val(r.expires_at)
                                      /\ Val(r.expires_at) <= last.until})
        /\ \A i \in 1..Len(last.rows) : ListedRecord(i).expires_at # NULL

\* render_list's first page of expiring records, full, starting with a record
\* that expires now, of a table that holds records without an expiry and
\* records expiring after the horizon
C27_Witness ==
    /\ last.op = "expiring" /\ last.by = "render_list" /\ last.offset = 0
    /\ Len(last.rows) = LIST_PAGE_SIZE /\ last.total > LIST_PAGE_SIZE
    /\ ListedRecord(1).expires_at = Some(last.at)
    /\ \E r \in users : r.expires_at = NULL /\ r.is_banned = 0

\* a second page ending with a record that expires exactly at `until`
C27_WitnessUntil ==
    /\ last.op = "expiring" /\ last.offset = LIST_PAGE_SIZE
    /\ Len(last.rows) \in 1..(LIST_PAGE_SIZE - 1)
    /\ ListedRecord(Len(last.rows)).expires_at = Some(last.until)

\* a listing from a record expiring at `now` to one expiring at `until`, of a
\* table that holds records expiring later
C27_WitnessBeyond ==
    /\ last.op = "expiring" /\ Len(last.rows) > 1
    /\ ListedRecord(1).expires_at = Some(last.at)
    /\ ListedRecord(Len(last.rows)).expires_at = Some(last.until)
    /\ \E r \in users : r.is_banned = 0 /\ r.expires_at # NULL
                        /\ Val(r.expires_at) > last.until

-----------------------------------------------------------------------------
(* The capability gate: require_admin and require_member of user_guards.py *)

\* FSM contexts: one per sender, and context 0 of events without a sender
GuardSlots == {0} \cup Senders

\* the senders of events: no from_user, or a principal
GuardSenders == {NULL} \cup {Some(s) : s \in Senders}

\* records an earlier run left: none, unlimited, limited, banned
GuardRows ==
    {NoUser,
     [exists |-> TRUE, expires_at |-> NULL, is_banned |-> 0],
     [exists |-> TRUE, expires_at |-> Some(TickDays * SECONDS_IN_DAY), is_banned |-> 0],
     [exists |-> TRUE, expires_at |-> NULL, is_banned |-> 1]}

\* if role is not UserRole.ADMIN
admin_denied(role) == role # "admin"

\* mutant: if role in {UserRole.BANNED, UserRole.UNKNOWN}
member_denied_lets_expired(role) == role \in {"banned", "unknown"}

\* if role in {UserRole.BANNED, UserRole.EXPIRED, UserRole.UNKNOWN}
member_denied(role) == role \in {"banned", "expired", "unknown"}

NoGuarded ==
    [op |-> "none", sender |-> NULL, state |-> FALSE, invoked |-> FALSE,
     at |-> 0, before |-> NoFsm]

GuardSlot(sender) == IF sender = NULL THEN 0 ELSE Val(sender)

\* wrapper(event, *args, **kwargs): the role is resolved; on denial the state
\* passed in kwargs, if any, is cleared and the event answered; otherwise the
\* handler runs, here one that leaves its FSM state as it is or sets one
Guarded(op, sender, state, denied, sets) ==
    LET role == resolve_role(sender, users, now)
        slot == GuardSlot(sender)
    IN  /\ IF denied
           THEN /\ fsm' = IF state THEN Cleared(slot) ELSE fsm
                /\ reply' = "denied"
           ELSE /\ fsm' = IF sets THEN SetState(slot, "handler") ELSE fsm
                /\ reply' = "invoked"
        /\ last' = [op |-> op, sender |-> sender, state |-> state,
                    invoked |-> ~denied, at |-> now, before |-> fsm[slot]]
        /\ UNCHANGED <<users, now>>
        /\ UNCHANGED <<schemaVars, catVars>>

require_admin(sender, state, sets) ==
    Guarded("require_admin", sender, state,
            admin_denied(resolve_role(sender, users, now)), sets)

require_member(sender, state, sets) ==
    Guarded("require_member", sender, state,
            member_denied(resolve_role(sender, users, now)), sets)

InitGuards ==
    /\ SchemaIdle /\ CatalogIdle
    /\ users \in [Principals -> GuardRows]
    /\ now = 0
    /\ fsm = [s \in GuardSlots |-> NoFsm]
    /\ reply = "none"
    /\ last = NoGuarded

NextGuards ==
    \/ Tick
    \/ \E s \in GuardSenders, st \in BOOLEAN, sets \in BOOLEAN : require_admin(s, st, sets)
    \/ \E s \in GuardSenders, st \in BOOLEAN, sets \in BOOLEAN : require_member(s, st, sets)

SpecGuards == InitGuards /\ [][NextGuards]_vars

C31_WitnessAdmin ==
    /\ last.op = "require_admin" /\ ~last.invoked /\ last.state
    /\ resolve_role(last.sender, users, last.at) = "member"
    /\ last.before.state = "handler"
    /\ fsm[GuardSlot(last.sender)] = NoFsm

\* an administrator with a banned record passes require_admin
C31_WitnessInvoked ==
    /\ last.op = "require_admin" /\ last.invoked
    /\ last.sender # NULL /\ Banned(users[Val(last.sender)])

-----------------------------------------------------------------------------
(* Claims about who writes the users table and whose records are written *)

\* the FSM states whose handlers write the users table
MutatingStates == {"add_days", "edit_days", "ban_target", "delete_target"}

\* C32: no sender outside admin_ids ever holds a state of the admin FSM, and
\* every step that writes the users table is taken by a handler of a sender in
\* admin_ids: that sender held a state of a writing handler, which the handler
\* cleared, and no other sender's FSM context changed
C32_OnlyAdminsWrite ==
    /\ [](\A s \in Senders \ admin_ids : fsm[s] = NoFsm)
    /\ [][(users' # users \/ last' # last) =>
             \E s \in admin_ids :
                /\ fsm[s].state \in MutatingStates
                /\ fsm'[s] = NoFsm
                /\ \A o \in Senders \ {s} : fsm'[o] = fsm[o]]_vars

\* after an administrator's flow wrote a record, a sender outside admin_ids
\* pressed a button of the admin menu and was denied
C32_Witness ==
    /\ last.op # "none" /\ users[last.target].exists
    /\ reply = "denied"
    /\ \A s \in Senders \ admin_ids : fsm[s] = NoFsm

\* C33: no flow (add, extend, set term, make unlimited, ban or unban, delete)
\* writes the record of a principal in admin_ids; the senders that write are in
\* admin_ids, so this includes a ban or a delete of the sender's own record
C33_AdminRecordsUntouched ==
    last.op # "none" => last.target \notin admin_ids

\* the admin flows without the add and edit flows: no access is ever granted
NextBans ==
    \/ Tick
    \/ \E s \in Senders : open_admin_menu(s)
    \/ \E s \in Senders : ban_start(s)
    \/ \E s \in Senders : delete_start(s)
    \/ \E s \in Senders, p \in Principals, r \in BOOLEAN : ban_toggle(s, p, r)
    \/ \E s \in Senders, p \in Principals, r \in BOOLEAN : delete_user(s, p, r)

SpecBans == InitUsers /\ [][NextBans]_vars

\* C34: while no administrator has granted access (no add, extend, set term or
\* make unlimited has run), no principal outside admin_ids resolves to member,
\* whatever bans, unbans and deletes have run
C34_MemberOnlyByGrant ==
    \A p \in Principals \ admin_ids : resolve_role(Some(p), users, now) # "member"

\* C35: edit_plus leaves a record with an expiry that is not earlier than the
\* one it had, and leaves a record without an expiry (unlimited) without one
C35_ExtendNeverShortens ==
    (last.op = "edit_plus" /\ last.old.exists) =>
        /\ last.old.expires_at = NULL => users[last.target].expires_at = NULL
        /\ last.old.expires_at # NULL =>
              /\ users[last.target].expires_at # NULL
              /\ Val(users[last.target].expires_at) >= Val(last.old.expires_at)

-----------------------------------------------------------------------------
(* The listings and the role resolver *)

\* the rows of the users table as get_user hands them to resolve_role
RowsByPrincipal(rows) ==
    [p \in {r.telegram_id : r \in rows} |->
        LET row == Val(UsersStorage_get_user(rows, p))
        IN  [exists |-> TRUE, expires_at |-> row.expires_at, is_banned |-> row.is_banned]]

\* C36: every principal outside admin_ids that list_expiring(now, until)
\* returns has the role member at that same now
C36_ExpiringStillMember ==
    last.op = "expiring" =>
        \A i \in 1..Len(last.rows) :
            last.rows[i] \notin admin_ids =>
                resolve_role(Some(last.rows[i]), RowsByPrincipal(users), last.at) = "member"

-----------------------------------------------------------------------------
(* The add-video flow of one user with the buttons of earlier messages.  An *)
(* inline button stays in the chat once it was sent: add:save has no state  *)
(* filter and is handled whenever the button of a preview is pressed.       *)

\* two names that do not collide
StaleTitles == {Title(<<"a">>, 0), Title(<<"b">>, 0)}

\* a handler of user u ran, left the catalog c behind and sent a message with
\* the inline button `button`
HandledShowing(op, u, c, choice, button) ==
    /\ catalog' = c
    /\ saved' = c
    /\ out' = IF c = catalog THEN NoHandled
              ELSE [op |-> op, user |-> u, choice |-> choice,
                    dup_uid |-> SharedUid(c) \ SharedUid(catalog) # {},
                    dup_title |-> SharedTitle(c) \ SharedTitle(catalog) # {}]
    /\ shown' = shown \cup {<<u, button>>}
    /\ UNCHANGED <<schemaVars, userVars, calls>>

\* add_categories on "Done": with a category chosen the preview is sent with
\* its add:save button
add_categories_preview(u) ==
    /\ flow[u].state = "wait_categories"
    /\ IF Val(flow[u].data.categories) = <<>>
       THEN UNCHANGED flow /\ Handled("add_categories", u, catalog, NULL)
       ELSE /\ flow' = [flow EXCEPT ![u].state = "confirm"]
            /\ HandledShowing("add_categories", u, catalog, NULL, "add:save")
    /\ UNCHANGED posts

\* add_save whenever an add:save button of the chat is pressed: data["title"]
\* and data["categories"] raise KeyError when the FSM data lacks them, the
\* latter after upsert_video_file has stored the item
add_save_pressed(u) ==
    /\ <<u, "add:save">> \in shown
    /\ LET d == flow[u].data
           replace == d.duplicate_choice = Some("replace") /\ d.duplicate_video_id # NULL
       IN  IF d.title = NULL
           THEN UNCHANGED flow /\ Handled("add_save", u, catalog, d.duplicate_choice)
           ELSE IF d.categories = NULL
           THEN /\ UNCHANGED flow
                /\ IF ~replace /\ d.file_unique_id # NULL
                   THEN /\ catalog.seq < MaxItems
                        /\ Handled("add_save", u,
                                   upsert_video_file(catalog, Val(d.title), d.file_unique_id,
                                                     d.source_url).c, d.duplicate_choice)
                   ELSE Handled("add_save", u, catalog, d.duplicate_choice)
           ELSE LET r == SaveResult(d)
                IN  /\ replace \/ catalog.seq < MaxItems
                    /\ IF r.raised # "none"
                       THEN /\ UNCHANGED flow
                            /\ Handled("add_save", u, r.c, d.duplicate_choice)
                       ELSE /\ go_menu(u)
                            /\ Handled("add_save", u,
                                  IF d.file_unique_id # NULL /\ d.storage_message_id # NULL
                                  THEN save_storage_message(r.c, Val(r.result),
                                                            Val(d.storage_message_id)).c
                                  ELSE r.c,
                                  d.duplicate_choice)
    /\ UNCHANGED posts

InitStale == InitFlows({1})

NextStale ==
    \/ menu_btn(1)
    \/ add_video_start(1)
    \/ \E k \in BotUids, copied \in BOOLEAN : add_video_video_file(1, k, copied)
    \/ \E t \in BotUrls : add_video_video_text(1, t)
    \/ add_video_title_back(1)
    \/ \E t \in StaleTitles : add_video_title(1, t)
    \/ \E choice \in {"replace", "copy", "rename"} : add_duplicate_choice(1, choice)
    \/ add_categories_back(1)
    \/ \E c \in BotCategories : add_categories_pick(1, c)
    \/ add_categories_preview(1)
    \/ add_confirm_back(1)
    \/ add_save_pressed(1)

SpecStale == InitStale /\ [][NextStale]_vars

\* the categories of item video_id
CategoriesOf(c, video_id) == {a \in c.video_categories : a.video_id = video_id}

\* C37: when add_save, handled in the confirm step, overwrites an item through
\* replace_video, the title it saves matches the title that item had, as it
\* did when the title was entered last
C37_ReplaceOnlyMatchingTitle ==
    [][\A u \in DOMAIN flow :
          (/\ flow[u].state = "confirm"
           /\ flow[u].data.duplicate_choice = Some("replace")
           /\ flow[u].data.duplicate_video_id # NULL
           /\ flow'[u] = NoFlow
           /\ catalog' # catalog) =>
              LET item == get_video(catalog, Val(flow[u].data.duplicate_video_id))
              IN  /\ item # {}
                  /\ SameFolded(Val(item).title, Val(flow[u].data.title))]_vars

\* C38: add_save stores an item only when the FSM of the sender is in the
\* confirm step with a title and at least one chosen category, and no item is
\* ever without a category
C38_SaveOnlyFromConfirm ==
    /\ [](\A v \in catalog.videos : CategoriesOf(catalog, v.id) # {})
    /\ [][\A u \in DOMAIN flow :
             (out'.op = "add_save" /\ out'.user = u /\ catalog' # catalog) =>
                 /\ flow[u].state = "confirm"
                 /\ flow[u].data.title # NULL
                 /\ flow[u].data.categories \notin {NULL, Some(<<>>)}]_vars

-----------------------------------------------------------------------------
(* How many items one refresh touches                                       *)

\* C39: a call of refresh_file_id_from_storage modifies at most one item, by
\* the storage message or by the content identity, and leaves no two items
\* with the same file_id and the same file_unique_id
C39_RefreshAtMostOneItem ==
    out.op = "refresh_file_id_from_storage" =>
        LET written == catalog.videos \ out.before.videos
        IN  /\ out.result \in {NULL, Some(1)}
            /\ Cardinality(written) <= 1
            /\ \A r \in written : \A o \in catalog.videos \ {r} :
                  ~(o.file_id = r.file_id /\ o.file_unique_id = r.file_unique_id)

====
